---- MODULE Spec2Model ----
(***************************************************************************)
(* A model of toggleproxy's SOCKS5 engine.                                 *)
(*                                                                         *)
(*   Spec       one server session of socks5_async (SocksServerConnection: *)
(*              serve, auth, handle_req, cmd_connect) against a client     *)
(*              that sends bytes over a TCP stream.                        *)
(*   SpecHandle one session of server.rs handle: direct connection or a    *)
(*              chained one through SocksStream::connect to an upstream    *)
(*              proxy (socks_handshake, client cmd_connect).               *)
(*   SpecCodec  TargetAddr encoded by write_to and decoded again by        *)
(*              AddrType::get_socket_addrs.                                *)
(*   SpecLive   Spec with a scheduled task and a client that goes on.       *)
(*   SpecRelay  the relay of an established session (try_join of two copy  *)
(*              loops in lib.rs, copy_bidirectional in server.rs).         *)
(*   SpecListener  the accept loop and the sessions it spawned.            *)
(*   SpecAuth   the bounded auth channel, its worker and its senders.      *)
(*   SpecAuthDrop  SpecAuth with sessions dropped while they wait.         *)
(*   SpecDisplay   the report of the error a session ended with.           *)
(*   SpecToggle    runs of the toggle subcommand over the config file.     *)
(*                                                                         *)
(* Streams are sequences of bytes.  read_exact(n) takes n bytes or fails   *)
(* at end of stream; read(buf) takes whatever has arrived, at least one    *)
(* byte and at most the buffer, or nothing at end of stream.               *)
(***************************************************************************)
EXTENDS Integers, Sequences, FiniteSets, TLC

\* ------------------------------------------------------------- bounds
\* most methods a modelled client greeting announces
MaxMethods == 2
\* longest username, password or domain name a modelled peer sends
MaxName == 1

\* most bytes a peer writes in one direction of a relay
MaxBytes == 2
\* connections the modelled listener accepts, sessions that authenticate
MaxSessions == 3
\* room in the modelled auth channel; the channel of SocksServer::new holds
\* 100 messages, and a small one fills with few sessions
MaxQueued == 1
MaxTrail == 1
MaxStack == 40
MaxRuns == 2

\* ------------------------------------------------ socks.rs: constants
VERSION5 == 5
RESERVED == 0

\* Command::from (socks.rs 20-27)
CommandFrom(byte) ==
    CASE byte = 1 -> "Connect"
      [] byte = 2 -> "Bind"
      [] byte = 3 -> "UdpAssosiate"
      [] OTHER    -> "None"

\* `Command::X as u8`
CommandAsU8(c) ==
    CASE c = "Connect" -> 1
      [] c = "Bind" -> 2
      [] c = "UdpAssosiate" -> 3

\* AddrType::from (socks.rs 38-45)
AddrTypeFrom(byte) ==
    CASE byte = 1 -> "V4"
      [] byte = 3 -> "Domain"
      [] byte = 4 -> "V6"
      [] OTHER    -> "None"

\* `AddrType::X as u8`
AddrTypeAsU8(t) ==
    CASE t = "V4" -> 1
      [] t = "Domain" -> 3
      [] t = "V6" -> 4

\* `Response::X as u8` (socks.rs 121-131)
ResponseAsU8(r) ==
    CASE r = "Success" -> 0
      [] r = "Failure" -> 1
      [] r = "RuleFailure" -> 2
      [] r = "NetworkUnreachable" -> 3
      [] r = "HostUnreachable" -> 4
      [] r = "ConnectionRefused" -> 5
      [] r = "TtlExpired" -> 6
      [] r = "CommandNotSupported" -> 7
      [] r = "AddrTypeNotSupported" -> 8

\* `AuthMethod::X as u8` (socks.rs 141-145)
AuthMethodAsU8(m) ==
    CASE m = "NoAuth" -> 0
      [] m = "UserPass" -> 2
      [] m = "NoMethods" -> 255

\* AuthMethod::from (socks.rs 147-155)
AuthMethodFrom(byte) ==
    IF byte = AuthMethodAsU8("NoAuth") THEN "NoAuth"
    ELSE IF byte = AuthMethodAsU8("UserPass") THEN "UserPass"
    ELSE "NoMethods"

\* ------------------------------------------------------ byte streams
Take(s, n) == SubSeq(s, 1, n)
Drop(s, n) == SubSeq(s, n + 1, Len(s))

\* all sequences over S of length exactly n / at most n
SeqsOfLen(S, n) == [1..n -> S]
SeqsUpTo(S, n) == UNION {SeqsOfLen(S, k) : k \in 0..n}

\* n zero bytes (`[0u8; n]`, `vec![0; n]`)
Zeros(n) == [i \in 1..n |-> 0]

\* the contents of an n-byte zeroed buffer after a read put `got` at its start
Filled(got, n) == got \o Zeros(n - Len(got))

\* String::from_utf8 succeeds: in the modelled alphabet a byte is either
\* ASCII or 0xFF, and 0xFF occurs in no well-formed UTF-8 string
IsUtf8(bytes) == \A i \in 1..Len(bytes) : bytes[i] < 128

\* ------------------------------------- get_socket_addrs (socks.rs 47-115)
\* `(u16::from(port[0]) << 8) | u16::from(port[1])` (socks.rs 80)
PortOf(b) == b[1] * 256 + b[2]

\* the eight groups built from the 16 address bytes (socks.rs 85-87)
Groups(a) == [x \in 1..8 |-> a[2 * x - 1] * 256 + a[2 * x]]

\* Ipv6Addr::new(g0, .., g7): the address as 16 octets
Ipv6AddrNew(g) ==
    [i \in 1..16 |-> IF i % 2 = 1 THEN g[(i + 1) \div 2] \div 256
                                  ELSE g[i \div 2] % 256]

\* String::from_utf8_lossy (socks.rs 109): a byte that is no UTF-8 becomes
\* U+FFFD, written here as 65533
Utf8Lossy(bytes) ==
    [i \in 1..Len(bytes) |-> IF bytes[i] < 128 THEN bytes[i] ELSE 65533]

\* the bytes of the address proper for an address type (socks.rs 67-75);
\* a domain's length comes from the stream
AddrLen(t) == IF t = "V4" THEN 4 ELSE 16

\* What get_socket_addrs makes of the stream s (eof: the peer has shut
\* down after s).  st is "ok", the error it returns, or "blocked" while it
\* waits for bytes; used counts the bytes it took from the stream.  For a
\* domain the value is the host and port it hands to the resolver.
\*   read(&mut addr_type) takes one byte, or none at end of stream and the
\*   buffer keeps its 0; every later field is read with read_exact.
\* a decoder that takes one byte more than the length byte says
DomainLen_PlusOne(s) == s[2] + 1

\* the domain length (socks.rs 61-64): the byte after the address type
DomainLen(s) == s[2]

ParseAddr(s, eof) ==
    LET n0 == IF s = <<>> THEN 0 ELSE 1
        t == AddrTypeFrom(IF s = <<>> THEN 0 ELSE s[1])
        short(u) == IF eof THEN [st |-> "Err(io)", used |-> u]
                    ELSE [st |-> "blocked", used |-> 0]
    IN
    IF s = <<>> /\ ~eof THEN [st |-> "blocked", used |-> 0]
    ELSE IF t = "None" THEN [st |-> "Err(AddrTypeNotSupported)", used |-> n0]
    ELSE IF t = "Domain" /\ Len(s) < 2 THEN short(Len(s))
    ELSE
        LET hd == IF t = "Domain" THEN 2 ELSE 1
            n == IF t = "Domain" THEN DomainLen(s) ELSE AddrLen(t)
        IN
        IF Len(s) < hd + n + 2 THEN short(Len(s))
        ELSE
            LET a == SubSeq(s, hd + 1, hd + n)
                p == PortOf(SubSeq(s, hd + n + 1, hd + n + 2))
            IN [st |-> "ok", used |-> hd + n + 2, atyp |-> t,
                addr |-> CASE t = "V4" -> a
                           [] t = "V6" -> Ipv6AddrNew(Groups(a))
                           [] t = "Domain" -> Utf8Lossy(a),
                port |-> p]

\* --------------------------------------- TargetAddr (lib.rs 410-451)
\* A TargetAddr is [kind, host, port]: kind "V4" with 4 octets, "V6" with 16
\* octets, or "Domain" with the bytes of the name.

\* `port.to_be_bytes()`
ToBeBytes(p) == <<p \div 256, p % 256>>

\* `x as u8` of a usize
AsU8(n) == n % 256

\* TargetAddr::len (lib.rs 417-423)
TargetAddrLen(a) ==
    CASE a.kind = "V4" -> 4
      [] a.kind = "V6" -> 16
      [] a.kind = "Domain" -> Len(a.host) + 1

\* TargetAddr::addr_type (lib.rs 424-430): V6 is answered with AddrType::V4
TargetAddrType(a) ==
    CASE a.kind = "V4" -> "V4"
      [] a.kind = "V6" -> "V4"
      [] a.kind = "Domain" -> "Domain"

\* TargetAddr::write_to (lib.rs 431-450) into a buffer of TargetAddrLen + 2
\* bytes, which is what cmd_connect hands it (`data[4..]` of 6 + len bytes):
\* the slices copy_from_slice is given have the length of their source
WriteTo(a) ==
    IF a.kind = "Domain"
    THEN <<AsU8(Len(a.host))>> \o (a.host \o ToBeBytes(a.port))
    ELSE a.host \o ToBeBytes(a.port)

\* cmd_connect (lib.rs 383-384): the address-type byte and the address
AddrWire(a) == <<AddrTypeAsU8(TargetAddrType(a))>> \o WriteTo(a)

\* cmd_connect (lib.rs 379-384): the whole Connect request, written into
\* `vec![0; 6 + target_addr.len()]`
ConnectRequest(a) ==
    Filled(<<VERSION5, CommandAsU8("Connect"), RESERVED>> \o AddrWire(a),
           6 + TargetAddrLen(a))

\* ===================================================================
\* Spec: one server session of socks5_async (lib.rs 98-255)
\* ===================================================================
VARIABLES
    pc,         \* where the session's task is: the await it is parked on
    result,     \* what serve() returned: "running", "Ok", an error, "panic"
    no_auth,    \* SocksServerConnection.no_auth
    inq,        \* bytes the client has sent that the session has not read
    ceof,       \* the client has shut down its sending side
    out,        \* every byte the session has written to the client, in order
    mcount,     \* get_available_methods: iterations left of `0..methods_count`
    methods,    \* the Vec<AuthMethod> built by get_available_methods
    selected,   \* the branch auth() took: "UserPass", "NoAuth", "None"
    ulen,       \* auth: the username's length byte
    plen,       \* auth: the password's length byte
    username,   \* auth: username bytes
    password,   \* auth: password bytes
    authCalls,  \* how many times the validator closure ran for this session
    authOk,     \* what the validator answered: "unset", TRUE, FALSE
    warned,     \* the last message handed to shutdown() (it only logs)
    data,       \* handle_req: the 3-byte request header buffer
    dataLen,    \* handle_req: how many bytes read() put into data (-1: not read)
    addr_type,  \* get_socket_addrs: AddrType, "None" before it is read
    addr,       \* get_socket_addrs: address bytes
    port,       \* get_socket_addrs: port
    resolved,   \* a name resolution (to_socket_addrs on a domain) was made
    connected,  \* TcpStream::connect to the target succeeded
    relaying    \* the two copy loops of cmd_connect have started

srvVars == <<pc, result, no_auth, inq, ceof, out, mcount, methods, selected,
             ulen, plen, username, password, authCalls, authOk, warned, data,
             dataLen, addr_type, addr, port, resolved, connected, relaying>>

\* ---- server.rs handle() with SocksStream::connect (SpecHandle)
VARIABLES
    hpc,        \* where handle()'s task is
    hresult,    \* what handle() returned: "running", "Ok", "Err", "panic"
    status,     \* config.status: FALSE direct, TRUE chained
    user_pass,  \* the Option<(String, String)> given to SocksStream::connect
    command,    \* what conn.wait() returned: Connect, Associate, Bind, Err
    reqAddr,    \* the Address that came with the command
    target,     \* the Result bound to `target`: "none", "Ok", "Err"
    errKind,    \* why the outbound connection failed, "none" if it has not
    contacted,  \* the endpoints a TcpStream::connect was made to
    cliOut,     \* every byte handle() has written to the client
    upq,        \* bytes the upstream proxy sent that are not yet read
    upeof,      \* the upstream proxy has shut down its sending side
    upOut,      \* every byte written to the upstream proxy
    selResp,    \* socks_handshake: the method selection response read
    upResp,     \* socks_handshake: the username/password response read
    connResp,   \* cmd_connect: the 3-byte reply buffer
    connRespLen,\* cmd_connect: how many bytes read() put there (-1: not read)
    hrelaying   \* copy_bidirectional has started

hdlVars == <<hpc, hresult, status, user_pass, command, reqAddr, target,
             errKind, contacted, cliOut, upq, upeof, upOut, selResp, upResp,
             connResp, connRespLen, hrelaying>>

\* ---- the address codec on its own (SpecCodec)
VARIABLES
    stage,        \* "new", "encoded", "decoded"
    target_addr,  \* the TargetAddr being sent
    wire,         \* the bytes written for it, from the address-type byte on
    weof,         \* the stream ends after wire
    decoded,      \* what get_socket_addrs made of wire
    unread,       \* what get_socket_addrs left in the stream
    userpass,     \* the (username, password) given to SocksStream::connect
    upreq         \* the UserPass request written for them

codVars == <<stage, target_addr, wire, weof, decoded, unread, userpass,
             upreq>>

\* ---- the relay of an established session (SpecRelay)
VARIABLES
    rimpl,      \* "try_join": cmd_connect of lib.rs; "copy_bidirectional":
                \* handle of server.rs
    rpc,        \* "idle", "relay", "returning", "closed"
    rresult,    \* what the relay returned: "running", "Ok", "Err"
    sresult,    \* what the session's function returned after it
    sent,       \* per direction: bytes the source has written
    pending,    \* per direction: of those, bytes the relay has not read yet
    srcEof,     \* per direction: the source has shut down its sending side
    delivered,  \* per direction: bytes written to the destination
    dirst,      \* per direction: "copy", "eof", "done", "err", "dropped"
    wshut,      \* per socket: the relay has shut down its write side
    sockClosed, \* per socket: the relay's socket is closed (dropped)
    late        \* per direction: bytes delivered after the other was done

relVars == <<rimpl, rpc, rresult, sresult, sent, pending, srcEof, delivered,
             dirst, wshut, sockClosed, late>>

\* ---- the listener and its sessions (SpecListener)
VARIABLES
    limpl,      \* "SocksServer": serve of lib.rs; "server": server of server.rs
    log_error,  \* the logger lets error! records through
    alive,      \* the process runs and the accept loop is in it
    sess,       \* per connection: "none", "running", "killed" or its outcome
    accepted    \* how many connections the listener has accepted

lisVars == <<limpl, log_error, alive, sess, accepted>>

\* ---- the auth channel and its worker (SpecAuth)
VARIABLES
    ast,        \* per session: "idle", "ready", "waiting", "answered"
    cred,       \* per session: the (username, password) it read
    chan,       \* the mpsc channel: the senders of the queued messages
    job,        \* the session whose message the worker holds, 0 if none
    validating, \* validator calls in progress
    answer,     \* per session: what came back on its oneshot channel
    calls,      \* per session: validator calls made for its request
    worker,     \* the worker task: "running" or "stopped"
    failedSends \* "Failed to send back authentication result." records

autVars == <<ast, cred, chan, job, validating, answer, calls, worker,
             failedSends>>

\* ---- the error report of a session (SpecDisplay)
VARIABLES
    fpc,        \* "idle", "report", "fmt", "returned", "aborted"
    ferr,       \* the error the session ended with
    frames,     \* calls of Display::fmt on the stack
    written     \* "Error: " pieces written to the formatter so far

fmtVars == <<fpc, ferr, frames, written>>

\* ---- the toggle subcommand (SpecToggle)
VARIABLES
    tpc,        \* "idle", "start", "loaded", "toggled", "saved", "done"
    file,       \* the configuration file on disk
    config,     \* the Config value main holds
    loaded,     \* the status flag get_config returned in this run
    save_result, \* what save_config returned in main: "none", "Ok", "Err"
    restart,    \* systemd_restart in this run: "none", "Ok", "Err"
    hist        \* one record per finished run of the subcommand

tglVars == <<tpc, file, config, loaded, save_result, restart, hist>>

vars == <<srvVars, hdlVars, codVars, relVars, lisVars, autVars, fmtVars,
          tglVars>>

\* ------------------------------------------------ the modelled client
\* method bytes a client offers: NoAuth, UserPass, and one the server
\* does not know
MethodBytes == {0, 2, 255}
\* bytes of names: "a", "b", and a byte that is no UTF-8
NameBytes == {97, 98, 255}
\* command bytes: Connect, Bind, UdpAssosiate and two unassigned values
CmdBytes == {0, 1, 2, 3, 4}
\* address-type bytes: V4, Domain, V6 and an unassigned value
AtypBytes == {1, 3, 4, 9}
Names == SeqsUpTo(NameBytes, MaxName)
Addr4s == {<<127, 0, 0, 1>>}
Addr6s == {Zeros(15) \o <<1>>}
Ports == {<<0, 80>>}

\* VER, NMETHODS, METHODS
Greetings ==
    UNION {{<<v, n>> \o ms : ms \in SeqsOfLen(MethodBytes, n)} :
           v \in {4, VERSION5}, n \in 0..MaxMethods}

\* VER, ULEN, UNAME, PLEN, PASSWD
UserPassMsgs ==
    {<<v, Len(u)>> \o u \o <<Len(p)>> \o p : v \in {1, VERSION5},
                                             u \in Names, p \in Names}

\* DST.ADDR for an address-type byte
AddrBodies(t) ==
    CASE t = 1 -> Addr4s
      [] t = 3 -> {<<Len(d)>> \o d : d \in Names}
      [] t = 4 -> Addr6s
      [] OTHER -> {<<>>}

\* VER, CMD, RSV, ATYP, DST.ADDR, DST.PORT
Requests ==
    UNION {{<<v, c, RESERVED, t>> \o a \o p : a \in AddrBodies(t), p \in Ports} :
           v \in {4, VERSION5}, c \in CmdBytes, t \in AtypBytes}

\* the validator closure handed to SocksServer::new, as in its doc example:
\* `users.contains(&(username, password))` with one user, ("a", "b")
Users == {<< <<97>>, <<98>> >>}
auth(u, p) == <<u, p>> \in Users

\* the message a client sends when the session is parked at `at`
ClientMsgs(at) ==
    CASE at = "serve" -> Greetings
      [] at = "ulen"  -> UserPassMsgs
      [] at = "req"   -> Requests
      [] OTHER        -> {}

\* handle() and the codec at rest, in a run that is about something else
IdleHdl ==
    /\ hpc = "idle"
    /\ hresult = "running"
    /\ status = FALSE
    /\ user_pass = "None"
    /\ command = "none"
    /\ reqAddr = "none"
    /\ target = "none"
    /\ errKind = "none"
    /\ contacted = {}
    /\ cliOut = <<>>
    /\ upq = <<>>
    /\ upeof = FALSE
    /\ upOut = <<>>
    /\ selResp = <<>>
    /\ upResp = <<>>
    /\ connResp = Zeros(3)
    /\ connRespLen = -1
    /\ hrelaying = FALSE

IdleCod ==
    /\ stage = "idle"
    /\ target_addr = "none"
    /\ wire = <<>>
    /\ weof = FALSE
    /\ decoded = [st |-> "none"]
    /\ unread = <<>>
    /\ userpass = << <<>>, <<>> >>
    /\ upreq = <<>>

\* the two directions of a relay and the two sockets it holds
Dirs == {"c2t", "t2c"}
Socks == {"client", "target"}
\* the connections of the listener, the sessions of the auth channel
Sessions == 1..MaxSessions

IdleRel ==
    /\ rimpl = "try_join"
    /\ rpc = "idle"
    /\ rresult = "running"
    /\ sresult = "running"
    /\ sent = [d \in Dirs |-> 0]
    /\ pending = [d \in Dirs |-> 0]
    /\ srcEof = [d \in Dirs |-> FALSE]
    /\ delivered = [d \in Dirs |-> 0]
    /\ dirst = [d \in Dirs |-> "copy"]
    /\ wshut = [k \in Socks |-> FALSE]
    /\ sockClosed = [k \in Socks |-> FALSE]
    /\ late = [d \in Dirs |-> 0]

IdleLis ==
    /\ limpl = "SocksServer"
    /\ log_error = FALSE
    /\ alive = FALSE
    /\ sess = [i \in Sessions |-> "none"]
    /\ accepted = 0

IdleAut ==
    /\ ast = [i \in Sessions |-> "idle"]
    /\ cred = [i \in Sessions |-> << <<>>, <<>> >>]
    /\ chan = <<>>
    /\ job = 0
    /\ validating = 0
    /\ answer = [i \in Sessions |-> "none"]
    /\ calls = [i \in Sessions |-> 0]
    /\ worker = "running"
    /\ failedSends = 0

IdleFmt ==
    /\ fpc = "idle"
    /\ ferr = "none"
    /\ frames = 0
    /\ written = 0

IdleTgl ==
    /\ tpc = "idle"
    /\ file = [st |-> "missing", status |-> FALSE, systemd |-> FALSE]
    /\ config = [status |-> FALSE, systemd |-> FALSE]
    /\ loaded = FALSE
    /\ save_result = "none"
    /\ restart = "none"
    /\ hist = <<>>

InitSrv ==
    /\ IdleHdl
    /\ IdleCod
    /\ IdleRel
    /\ IdleLis
    /\ IdleAut
    /\ IdleFmt
    /\ IdleTgl
    /\ pc = "serve"
    /\ result = "running"
    /\ no_auth \in BOOLEAN
    /\ inq = <<>>
    /\ ceof = FALSE
    /\ out = <<>>
    /\ mcount = 0
    /\ methods = <<>>
    /\ selected = "unset"
    /\ ulen = 0
    /\ plen = 0
    /\ username = <<>>
    /\ password = <<>>
    /\ authCalls = 0
    /\ authOk = "unset"
    /\ warned = ""
    /\ data = Zeros(3)
    /\ dataLen = -1
    /\ addr_type = "None"
    /\ addr = <<>>
    /\ port = 0
    /\ resolved = FALSE
    /\ connected = FALSE
    /\ relaying = FALSE

\* The client sends its next message, whole, or only the first k bytes of it
\* and then shuts down.
ClientSend ==
    /\ ~ceof
    /\ inq = <<>>
    /\ \E m \in ClientMsgs(pc) : \E k \in 1..Len(m) :
          /\ inq' = Take(m, k)
          /\ ceof' = (k < Len(m))
    /\ UNCHANGED <<plen, pc, result, no_auth, out, mcount, methods, selected, ulen,
                   username, password, authCalls, authOk, warned, data,
                   dataLen, addr_type, addr, port, resolved, connected,
                   relaying>>
    /\ UNCHANGED <<hdlVars, codVars, relVars, lisVars, autVars, fmtVars, tglVars>>

\* The client shuts down its sending side with nothing more to say.
ClientClose ==
    /\ ~ceof
    /\ pc # "closed"
    /\ ceof' = TRUE
    /\ UNCHANGED <<plen, pc, result, no_auth, inq, out, mcount, methods, selected,
                   ulen, username, password, authCalls, authOk, warned, data,
                   dataLen, addr_type, addr, port, resolved, connected,
                   relaying>>
    /\ UNCHANGED <<hdlVars, codVars, relVars, lisVars, autVars, fmtVars, tglVars>>

\* read_exact(n) can return: n bytes are there, or the stream ended short
CanReadExact(n) == Len(inq) >= n \/ ceof
ReadExactOk(n) == Len(inq) >= n

\* a session that starts over at the greeting instead of ending
Finish_Restart(r) ==
    /\ pc' = "serve"
    /\ result' = r
    /\ inq' = <<>>

\* serve() returns r (an Err, or a panic unwinds the task): the task ends and
\* the socket is dropped with whatever was unread
Finish(r) ==
    /\ pc' = "closed"
    /\ result' = r
    /\ inq' = <<>>

\* shutdown(msg) (lib.rs 116-119): logs the message and returns Ok(())
shutdown(msg) == warned' = msg

\* serve (lib.rs 121-129): read the 2-byte header, accept only version 5
ServeHeader ==
    /\ pc = "serve"
    /\ CanReadExact(2)
    /\ IF ~ReadExactOk(2)
       THEN /\ Finish("Err(io)")
            /\ UNCHANGED <<mcount, warned>>
       ELSE IF inq[1] # VERSION5
       THEN /\ shutdown("Unsupported version")
            /\ Finish("Err(Failure)")
            /\ UNCHANGED mcount
       ELSE /\ mcount' = inq[2]
            /\ pc' = IF inq[2] = 0 THEN "auth" ELSE "methods"
            /\ inq' = Drop(inq, 2)
            /\ UNCHANGED <<result, warned>>
    /\ UNCHANGED <<plen, no_auth, ceof, out, methods, selected, ulen, username,
                   password, authCalls, authOk, data, dataLen, addr_type,
                   addr, port, resolved, connected, relaying>>
    /\ UNCHANGED <<hdlVars, codVars, relVars, lisVars, autVars, fmtVars, tglVars>>

\* get_available_methods (socks.rs 156-167): one iteration of the loop
GetMethod ==
    /\ pc = "methods"
    /\ CanReadExact(1)
    /\ IF ~ReadExactOk(1)
       THEN /\ Finish("Err(io)")
            /\ methods' = <<>>
            /\ UNCHANGED mcount
       ELSE /\ methods' = Append(methods, AuthMethodFrom(inq[1]))
            /\ mcount' = mcount - 1
            /\ pc' = IF mcount = 1 THEN "auth" ELSE "methods"
            /\ inq' = Drop(inq, 1)
            /\ UNCHANGED result
    /\ UNCHANGED <<plen, no_auth, ceof, out, selected, ulen, username, password,
                   authCalls, authOk, warned, data, dataLen, addr_type, addr,
                   port, resolved, connected, relaying>>
    /\ UNCHANGED <<hdlVars, codVars, relVars, lisVars, autVars, fmtVars, tglVars>>

\* `methods.contains(&m)`
Contains(ms, m) == \E i \in 1..Len(ms) : ms[i] = m

\* auth with its first two tests the other way round: NoAuth wins when both
\* are offered and no-auth is allowed
AuthBranch_NoAuthFirst(ms, na) ==
    IF na /\ Contains(ms, "NoAuth") THEN "NoAuth"
    ELSE IF Contains(ms, "UserPass") THEN "UserPass"
    ELSE "None"

\* auth (lib.rs 144, 184, 189): which branch of the if/else-if/else runs
AuthBranch(ms, na) ==
    IF Contains(ms, "UserPass") THEN "UserPass"
    ELSE IF na /\ Contains(ms, "NoAuth") THEN "NoAuth"
    ELSE "None"

\* auth (lib.rs 147, 187, 191): the two bytes each branch writes
MethodReply(branch) ==
    CASE branch = "UserPass" -> <<VERSION5, AuthMethodAsU8("UserPass")>>
      [] branch = "NoAuth"   -> <<VERSION5, AuthMethodAsU8("NoAuth")>>
      [] branch = "None"     -> <<VERSION5, ResponseAsU8("Failure")>>

\* a server that asks for the credentials again after a wrong password
AfterAuth_Retry(branch, ok) ==
    IF branch = "UserPass" /\ ~ok THEN "ulen" ELSE "req"

\* where serve() goes once auth() has returned Ok(()): `self.auth(methods)
\* .await?` is followed by `self.handle_req().await?` (lib.rs 135-138),
\* whichever branch auth took
AfterAuth(branch, ok) == "req"

\* auth (lib.rs 143-148, 184-195): pick the branch and write the method reply
AuthSelect ==
    /\ pc = "auth"
    /\ LET b == AuthBranch(methods, no_auth) IN
       \E wrote \in BOOLEAN :
          IF ~wrote
          THEN /\ Finish("Err(io)")
               /\ UNCHANGED <<out, selected, warned>>
          ELSE /\ selected' = b
               /\ out' = out \o MethodReply(b)
               /\ IF b = "None"
                  THEN shutdown("No acceptable method found.")
                  ELSE UNCHANGED warned
               /\ pc' = IF b = "UserPass" THEN "ulen" ELSE AfterAuth(b, FALSE)
               /\ UNCHANGED <<result, inq>>
    /\ methods' = <<>>
    /\ UNCHANGED <<plen, no_auth, ceof, mcount, ulen, username, password, authCalls,
                   authOk, data, dataLen, addr_type, addr, port, resolved,
                   connected, relaying>>
    /\ UNCHANGED <<hdlVars, codVars, relVars, lisVars, autVars, fmtVars, tglVars>>

\* auth (lib.rs 151-153): `[0u8; 2]` is read and its second byte is the length
ReadULen ==
    /\ pc = "ulen"
    /\ CanReadExact(2)
    /\ IF ~ReadExactOk(2)
       THEN /\ Finish("Err(io)")
            /\ UNCHANGED ulen
       ELSE /\ ulen' = inq[2]
            /\ inq' = Drop(inq, 2)
            /\ pc' = "uname"
            /\ UNCHANGED result
    /\ UNCHANGED <<plen, no_auth, ceof, out, mcount, methods, selected, username,
                   password, authCalls, authOk, warned, data, dataLen,
                   addr_type, addr, port, resolved, connected, relaying>>
    /\ UNCHANGED <<hdlVars, codVars, relVars, lisVars, autVars, fmtVars, tglVars>>

\* auth (lib.rs 154-159): read the username, `String::from_utf8(..).unwrap()`
ReadUsername ==
    /\ pc = "uname"
    /\ CanReadExact(ulen)
    /\ IF ~ReadExactOk(ulen)
       THEN /\ Finish("Err(io)")
            /\ UNCHANGED username
       ELSE IF ~IsUtf8(Take(inq, ulen))
       THEN /\ Finish("panic")
            /\ UNCHANGED username
       ELSE /\ username' = Take(inq, ulen)
            /\ inq' = Drop(inq, ulen)
            /\ pc' = "plen"
            /\ UNCHANGED result
    /\ UNCHANGED <<plen, no_auth, ceof, out, mcount, methods, selected, ulen,
                   password, authCalls, authOk, warned, data, dataLen,
                   addr_type, addr, port, resolved, connected, relaying>>
    /\ UNCHANGED <<hdlVars, codVars, relVars, lisVars, autVars, fmtVars, tglVars>>

\* auth (lib.rs 162-164): the password's length byte
ReadPLen ==
    /\ pc = "plen"
    /\ CanReadExact(1)
    /\ IF ~ReadExactOk(1)
       THEN /\ Finish("Err(io)")
            /\ UNCHANGED plen
       ELSE /\ plen' = inq[1]
            /\ inq' = Drop(inq, 1)
            /\ pc' = "passwd"
            /\ UNCHANGED result
    /\ UNCHANGED <<ulen, no_auth, ceof, out, mcount, methods, selected, username,
                   password, authCalls, authOk, warned, data, dataLen,
                   addr_type, addr, port, resolved, connected, relaying>>
    /\ UNCHANGED <<hdlVars, codVars, relVars, lisVars, autVars, fmtVars, tglVars>>

\* auth (lib.rs 165-170): read the password, `String::from_utf8(..).unwrap()`
ReadPassword ==
    /\ pc = "passwd"
    /\ CanReadExact(plen)
    /\ IF ~ReadExactOk(plen)
       THEN /\ Finish("Err(io)")
            /\ UNCHANGED password
       ELSE IF ~IsUtf8(Take(inq, plen))
       THEN /\ Finish("panic")
            /\ UNCHANGED password
       ELSE /\ password' = Take(inq, plen)
            /\ inq' = Drop(inq, plen)
            /\ pc' = "check"
            /\ UNCHANGED result
    /\ UNCHANGED <<plen, no_auth, ceof, out, mcount, methods, selected, ulen,
                   username, authCalls, authOk, warned, data, dataLen,
                   addr_type, addr, port, resolved, connected, relaying>>
    /\ UNCHANGED <<hdlVars, codVars, relVars, lisVars, autVars, fmtVars, tglVars>>

\* the answer written with the SOCKS version in front in both cases
AuthReply_Version5(ok) ==
    IF ok THEN <<VERSION5, ResponseAsU8("Success")>>
    ELSE <<VERSION5, ResponseAsU8("Failure")>>

\* auth (lib.rs 177, 180): the two bytes written for the validator's answer
AuthReply(ok) ==
    IF ok THEN <<1, ResponseAsU8("Success")>>
    ELSE <<VERSION5, ResponseAsU8("Failure")>>

\* auth (lib.rs 172-183) with the worker of SocksServer::new (lib.rs 37-43):
\* the credentials go to the worker, which runs the validator once and sends
\* its answer back; the answer is written to the client
AuthCheck ==
    /\ pc = "check"
    /\ LET ok == auth(username, password) IN
       /\ authCalls' = authCalls + 1
       /\ authOk' = ok
       /\ \E wrote \in BOOLEAN :
             IF ~wrote
             THEN /\ Finish("Err(io)")
                  /\ UNCHANGED <<out, warned>>
             ELSE /\ out' = out \o AuthReply(ok)
                  /\ IF ok THEN UNCHANGED warned
                     ELSE shutdown("Authentication failed.")
                  /\ pc' = AfterAuth("UserPass", ok)
                  /\ UNCHANGED <<result, inq>>
    /\ username' = <<>>
    /\ ulen' = 0
    /\ plen' = 0
    /\ password' = <<>>
    /\ UNCHANGED <<no_auth, ceof, mcount, methods, selected, data,
                   dataLen, addr_type, addr, port, resolved, connected,
                   relaying>>
    /\ UNCHANGED <<hdlVars, codVars, relVars, lisVars, autVars, fmtVars, tglVars>>

Min(a, b) == IF a <= b THEN a ELSE b

\* read(buf) on a buffer of n bytes can return: something has arrived, or
\* the stream has ended (it then returns 0 and leaves the buffer alone)
CanRead == inq # <<>> \/ ceof
\* how many bytes a read into n bytes may return, as the segments fall
ReadCounts(n) == IF inq = <<>> THEN {0} ELSE 1..Min(n, Len(inq))

\* handle_req (lib.rs 199-201): `self.socket.read(&mut data).await?` on a
\* zeroed 3-byte buffer; the count read() returns is not looked at
ReadReqHeader ==
    /\ pc = "req"
    /\ CanRead
    /\ \E k \in ReadCounts(3) :
          /\ data' = Filled(Take(inq, k), 3)
          /\ dataLen' = k
          /\ inq' = Drop(inq, k)
    /\ pc' = "atyp"
    /\ UNCHANGED <<plen, result, no_auth, ceof, out, mcount, methods, selected,
                   ulen, username, password, authCalls, authOk, warned,
                   addr_type, addr, port, resolved, connected, relaying>>
    /\ UNCHANGED <<hdlVars, codVars, relVars, lisVars, autVars, fmtVars, tglVars>>

\* get_socket_addrs (socks.rs 47-115) as handle_req calls it (lib.rs 204):
\* the address is parsed from the client's stream; a domain is then looked
\* up, and the resolver finds it or does not
GetSocketAddrs ==
    /\ pc = "atyp"
    /\ LET r == ParseAddr(inq, ceof) IN
       /\ r.st # "blocked"
       /\ IF r.st # "ok"
          THEN /\ Finish(r.st)
               /\ UNCHANGED <<addr_type, addr, port, resolved>>
          ELSE /\ addr_type' = r.atyp
               /\ addr' = r.addr
               /\ port' = r.port
               /\ resolved' = (r.atyp = "Domain")
               /\ \E found \in BOOLEAN :
                     IF r.atyp = "Domain" /\ ~found
                     THEN Finish("Err(io)")
                     ELSE /\ pc' = "dispatch"
                          /\ inq' = Drop(inq, r.used)
                          /\ UNCHANGED result
    /\ UNCHANGED <<ulen, plen, no_auth, ceof, out, mcount, methods, selected,
                   username, password, authCalls, authOk, warned, data,
                   dataLen, connected, relaying>>
    /\ UNCHANGED <<hdlVars, codVars, relVars, lisVars, autVars, fmtVars, tglVars>>

\* handle_req (lib.rs 207-214): match on Command::from(data[1])
Dispatch ==
    /\ pc = "dispatch"
    /\ IF CommandFrom(data[2]) = "Connect"
       THEN /\ pc' = "connect"
            /\ UNCHANGED <<result, inq, warned>>
       ELSE /\ shutdown("Command not supported.")
            /\ Finish("Err(CommandNotSupported)")
    /\ UNCHANGED <<plen, no_auth, ceof, out, mcount, methods, selected, ulen,
                   username, password, authCalls, authOk, data, dataLen,
                   addr_type, addr, port, resolved, connected, relaying>>
    /\ UNCHANGED <<hdlVars, codVars, relVars, lisVars, autVars, fmtVars, tglVars>>

\* cmd_connect (lib.rs 220): `TcpStream::connect(&addrs[..]).await?`
ConnectTarget ==
    /\ pc = "connect"
    /\ \E ok \in BOOLEAN :
          IF ok
          THEN /\ connected' = TRUE
               /\ pc' = "reply"
               /\ UNCHANGED <<result, inq>>
          ELSE /\ Finish("Err(io)")
               /\ UNCHANGED connected
    /\ UNCHANGED <<plen, no_auth, ceof, out, mcount, methods, selected, ulen,
                   username, password, authCalls, authOk, warned, data,
                   dataLen, addr_type, addr, port, resolved, relaying>>
    /\ UNCHANGED <<hdlVars, codVars, relVars, lisVars, autVars, fmtVars, tglVars>>

\* cmd_connect (lib.rs 222-234): the fixed reply, bound address 127.0.0.1:0
SuccessReply ==
    <<VERSION5, ResponseAsU8("Success"), RESERVED, 1, 127, 0, 0, 1, 0, 0>>

\* cmd_connect (lib.rs 222-239): write the reply (`.unwrap()`: a failed
\* write panics), then start the two copy loops
SendSuccess ==
    /\ pc = "reply"
    /\ \E wrote \in BOOLEAN :
          IF wrote
          THEN /\ out' = out \o SuccessReply
               /\ relaying' = TRUE
               /\ pc' = "relay"
               /\ UNCHANGED <<result, inq>>
          ELSE /\ Finish("panic")
               /\ UNCHANGED <<out, relaying>>
    /\ UNCHANGED <<plen, no_auth, ceof, mcount, methods, selected, ulen, username,
                   password, authCalls, authOk, warned, data, dataLen,
                   addr_type, addr, port, resolved, connected>>
    /\ UNCHANGED <<hdlVars, codVars, relVars, lisVars, autVars, fmtVars, tglVars>>

\* cmd_connect (lib.rs 241-253): try_join of the two copy loops returns
RelayEnd ==
    /\ pc = "relay"
    /\ \E r \in {"Ok", "Err(io)"} : Finish(r)
    /\ UNCHANGED <<plen, no_auth, ceof, out, mcount, methods, selected, ulen,
                   username, password, authCalls, authOk, warned, data,
                   dataLen, addr_type, addr, port, resolved, connected,
                   relaying>>
    /\ UNCHANGED <<hdlVars, codVars, relVars, lisVars, autVars, fmtVars, tglVars>>

NextSrv ==
    \/ ClientSend
    \/ ClientClose
    \/ ServeHeader
    \/ GetMethod
    \/ AuthSelect
    \/ ReadULen
    \/ ReadUsername
    \/ ReadPLen
    \/ ReadPassword
    \/ AuthCheck
    \/ ReadReqHeader
    \/ GetSocketAddrs
    \/ Dispatch
    \/ ConnectTarget
    \/ SendSuccess
    \/ RelayEnd

Spec == InitSrv /\ [][NextSrv]_vars

\* the same session when nothing stalls: the task is scheduled while it can
\* run, and the client goes on sending or closes
SpecLive == InitSrv /\ [][NextSrv]_vars /\ WF_vars(NextSrv)

\* ===================================================================
\* Properties of the server session (Spec)
\* ===================================================================

\* method negotiation ended in an accepted method
Accepted ==
    \/ selected = "NoAuth" /\ no_auth
    \/ selected = "UserPass" /\ authOk = TRUE

\* bytes of a command request have been taken from the client
CommandRead == dataLen > 0

\* C1: a command request is read, a CONNECT dispatched and a target
\* connection opened only after method negotiation ended in an accepted
\* method (NoAuth selected with no-auth permitted, or UserPass selected and
\* the validator returned true).
C1_AuthGate ==
    (CommandRead \/ pc \in {"connect", "reply", "relay"} \/ connected)
        => Accepted

\* the set of methods in a Vec<AuthMethod>
MethodSet(ms) == {ms[i] : i \in 1..Len(ms)}

\* the selection rule of the specification, for an offered set M and a
\* configuration (allowNoAuth, requireUserPass)
SelectionRule(M, allowNoAuth, requireUserPass) ==
    IF requireUserPass /\ "UserPass" \in M THEN "UserPass"
    ELSE IF allowNoAuth /\ "NoAuth" \in M THEN "NoAuth"
    ELSE "None"

\* C2 (as amended): whenever the session selects a method, it selects
\* UserPass if UserPass is offered (whatever the configuration: the server
\* has no setting that makes credentials optional); otherwise NoAuth if
\* no-auth is permitted and NoAuth is offered; otherwise none.  None is
\* selected iff neither UserPass nor a permitted NoAuth is offered.
C2_Selection ==
    [][selected' # selected =>
         LET M == MethodSet(methods) IN
         /\ selected' = SelectionRule(M, no_auth, TRUE)
         /\ (selected' = "None") <=>
               ~("UserPass" \in M \/ (no_auth /\ "NoAuth" \in M))]_vars

\* C2 (as claimed): the selection follows the rule for every configuration
\* (allowNoAuth, requireUserPass), also one that does not require credentials.
C2_Original ==
    [][selected' # selected =>
         \A requireUserPass \in BOOLEAN :
            selected' = SelectionRule(MethodSet(methods), no_auth,
                                      requireUserPass)]_vars

\* UserPass was selected although no-auth is permitted
C2_Witness == selected = "UserPass" /\ no_auth /\ out = <<5, 2>>

\* the wire value of the selected method; none acceptable is 0xFF
SelectedWire(sel) ==
    CASE sel = "NoAuth" -> 0
      [] sel = "UserPass" -> 2
      [] sel = "None" -> 255

\* C3: once a method is selected, the greeting response is the two bytes
\* [0x05, selected], and the second byte is 0xFF when none is acceptable.
C3_GreetingResponse ==
    selected # "unset" => Take(out, 2) = <<5, SelectedWire(selected)>>

\* C4: with UserPass selected, the first bytes written after the method
\* reply are written when username and password have both been read in
\* full (each as long as its length byte says), and they are [0x01, 0x00]
\* when the validator answers true and [0x05, 0x01] when it answers false.
C4_UserPassResponse ==
    [][(selected = "UserPass" /\ Len(out) = 2 /\ out' # out) =>
         /\ pc = "check"
         /\ Len(username) = ulen
         /\ Len(password) = plen
         /\ authOk' = (<<username, password>> \in Users)
         /\ out' = out \o (IF authOk' THEN <<1, 0>> ELSE <<5, 1>>)]_vars

\* user "a" with password "b" was let in
C4_Witness == pc = "req" /\ out = <<5, 2, 1, 0>> /\ authOk = TRUE

\* the well-formed CommandNotSupported reply: version, code 0x07, reserved,
\* address type IPv4, zeroed address, zeroed port
CommandNotSupportedReply == <<5, 7, 0, 1, 0, 0, 0, 0, 0, 0>>

\* the last n bytes written to the client
LastOut(n) == SubSeq(out, Len(out) - n + 1, Len(out))

\* C5: a session that ended after a whole request header whose command
\* byte is not Connect has sent the CommandNotSupported reply last, and
\* has not relayed.
C5_CommandNotSupported ==
    (pc = "closed" /\ dataLen = 3 /\ data[2] # 1 /\
     result = "Err(CommandNotSupported)")
        => /\ Len(out) >= 10
           /\ LastOut(10) = CommandNotSupportedReply
           /\ ~relaying

\* C10: the address that follows the request header is interpreted only
\* when the 3-byte header was read in full.
C10_ExactHeader ==
    addr_type # "None" => dataLen = 3

\* C11: a CONNECT is dispatched only from a command request whose first
\* byte is the version 0x05: when the whole 3-byte prefix was read and the
\* session got as far as connecting, data[0] is 5.
C11_VersionChecked ==
    (dataLen = 3 /\ pc \in {"connect", "reply", "relay"})
        => data[1] = VERSION5

\* C16: the validator is called at most once in a session; it has been
\* called exactly once when UserPass was selected and the session is past
\* the credentials check (its answer is known), and never when NoAuth or no
\* method was selected; after an answer of false it is not called again.
C16_ValidatorOnce ==
    /\ authCalls \in {0, 1}
    /\ authCalls = 0 => authOk = "unset"
    /\ authCalls = 1 => authOk \in BOOLEAN
    /\ authCalls = 1 => selected = "UserPass"
    /\ selected \in {"NoAuth", "None"} => authCalls = 0
    /\ (selected = "UserPass" /\ pc \in {"req", "atyp", "dispatch", "connect",
                                         "reply", "relay"}) => authCalls = 1

\* the validator said no, the session went on and ended, one call was made
C16_Witness ==
    /\ pc = "closed"
    /\ dataLen = 3
    /\ authCalls = 1
    /\ authOk = FALSE

\* every field of the address that starts the stream s has arrived: the
\* address-type byte, for a domain its length byte and name, and the port
FieldsComplete(s) ==
    /\ s # <<>>
    /\ CASE s[1] = 1 -> Len(s) >= 1 + 4 + 2
         [] s[1] = 4 -> Len(s) >= 1 + 16 + 2
         [] s[1] = 3 -> Len(s) >= 2 /\ Len(s) >= 2 + s[2] + 2
         [] OTHER -> TRUE

\* C21: decoding the address ends with AddrTypeNotSupported exactly when an
\* address-type byte was received and is none of 1, 3, 4; it ends with an
\* I/O error whenever the stream ends before a field is complete, the
\* address-type byte included; and an address comes only from a complete
\* read.
C21_DecodeErrors ==
    [][(pc = "atyp" /\ pc' # "atyp") =>
          /\ (result' = "Err(AddrTypeNotSupported)") <=>
                (inq # <<>> /\ inq[1] \notin {1, 3, 4})
          /\ (ceof /\ ~FieldsComplete(inq)) => result' = "Err(io)"
          /\ addr_type' # "None" => FieldsComplete(inq)]_vars

\* C25: once the request header shows a command other than Connect, no name
\* has been resolved and no outbound connection has been opened for it.
C25_CommandDecidesFirst ==
    (dataLen = 3 /\ CommandFrom(data[2]) # "Connect")
        => (~resolved /\ ~connected)

\* the server session at rest
IdleSrv ==
    /\ pc = "idle"
    /\ result = "running"
    /\ no_auth = FALSE
    /\ inq = <<>>
    /\ ceof = FALSE
    /\ out = <<>>
    /\ mcount = 0
    /\ methods = <<>>
    /\ selected = "unset"
    /\ ulen = 0
    /\ plen = 0
    /\ username = <<>>
    /\ password = <<>>
    /\ authCalls = 0
    /\ authOk = "unset"
    /\ warned = ""
    /\ data = Zeros(3)
    /\ dataLen = -1
    /\ addr_type = "None"
    /\ addr = <<>>
    /\ port = 0
    /\ resolved = FALSE
    /\ connected = FALSE
    /\ relaying = FALSE

\* ===================================================================
\* SpecHandle: server.rs handle() for one connection, with
\* SocksStream::connect (lib.rs 287-407) as its chained path
\* ===================================================================
\* the Address values conn.wait() hands over; a domain is a Vec<u8>
ReqAddrs ==
    {[kind |-> "V4", host |-> <<127, 0, 0, 1>>, port |-> 80],
     [kind |-> "V6", host |-> Zeros(15) \o <<1>>, port |-> 80]}
    \cup
    {[kind |-> "Domain", host |-> h, port |-> 80] :
        h \in Names \ {<<>>}}

\* Address::unspecified(): 0.0.0.0:0
Unspecified == [kind |-> "V4", host |-> Zeros(4), port |-> 0]

\* every reply carrying the code of Succeeded
ReplyAsU8_Zero(r) == 0

\* the Reply codes handle() uses (server.rs 75, 92, 109, 122)
ReplyAsU8(r) ==
    CASE r = "Succeeded" -> 0
      [] r = "GeneralFailure" -> 1
      [] r = "HostUnreachable" -> 4
      [] r = "CommandNotSupported" -> 7

\* the bytes `reply(rep, address)` puts on the wire: VER, REP, RSV, ATYP,
\* BND.ADDR, BND.PORT
ReplyWire(r, a) ==
    <<VERSION5, ReplyAsU8(r), RESERVED>> \o
    (CASE a.kind = "V4" -> <<1>> \o a.host
       [] a.kind = "V6" -> <<4>> \o a.host
       [] a.kind = "Domain" -> <<3, Len(a.host)>> \o a.host) \o
    ToBeBytes(a.port)

\* a failed connection answered with the catch-all code
ConnectErrReply_General(kind) == "GeneralFailure"

\* handle (server.rs 89-93): the reply for a failed connection, whatever the
\* kind of the error that `target` holds
ConnectErrReply(kind) == "HostUnreachable"

\* what the upstream proxy may send while handle() is parked at `at`
UpMsgs(at) ==
    CASE at = "hs_sel" -> {<<v, m>> : v \in {4, VERSION5}, m \in MethodBytes}
      [] at = "hs_upresp" -> {<<v, st>> : v \in {1, VERSION5}, st \in {0, 1}}
      [] at = "cc_resp" ->
            UNION {{<<v, r, RESERVED, t>> \o a \o p :
                       a \in AddrBodies(t), p \in Ports} :
                   v \in {4, VERSION5}, r \in {0, 5}, t \in AtypBytes}
      [] OTHER -> {}

InitHdl ==
    /\ IdleSrv
    /\ IdleCod
    /\ IdleRel
    /\ IdleLis
    /\ IdleAut
    /\ IdleFmt
    /\ IdleTgl
    /\ hpc = "wait"
    /\ hresult = "running"
    /\ status \in BOOLEAN
    /\ user_pass \in {"None", << <<97>>, <<98>> >>}
    /\ command = "none"
    /\ reqAddr = "none"
    /\ target = "none"
    /\ errKind = "none"
    /\ contacted = {}
    /\ cliOut = <<>>
    /\ upq = <<>>
    /\ upeof = FALSE
    /\ upOut = <<>>
    /\ selResp = <<>>
    /\ upResp = <<>>
    /\ connResp = Zeros(3)
    /\ connRespLen = -1
    /\ hrelaying = FALSE

UpstreamSend ==
    /\ ~upeof
    /\ upq = <<>>
    /\ \E m \in UpMsgs(hpc) : \E k \in 1..Len(m) :
          /\ upq' = Take(m, k)
          /\ upeof' = (k < Len(m))
    /\ UNCHANGED <<hpc, hresult, status, user_pass, command, reqAddr, target,
                   errKind, contacted, cliOut, upOut, selResp, upResp,
                   connResp, connRespLen, hrelaying>>
    /\ UNCHANGED <<srvVars, codVars, relVars, lisVars, autVars, fmtVars, tglVars>>

UpstreamClose ==
    /\ ~upeof
    /\ hpc \in {"hs_sel", "hs_upresp", "cc_resp", "cc_addr"}
    /\ upeof' = TRUE
    /\ UNCHANGED <<hpc, hresult, status, user_pass, command, reqAddr, target,
                   errKind, contacted, cliOut, upq, upOut, selResp, upResp,
                   connResp, connRespLen, hrelaying>>
    /\ UNCHANGED <<srvVars, codVars, relVars, lisVars, autVars, fmtVars, tglVars>>

\* handle() returns r (or a panic unwinds its task); its sockets are dropped
HFinish(r) ==
    /\ hpc' = "closed"
    /\ hresult' = r
    /\ upq' = <<>>

\* handle (server.rs 45-48, 107, 120, 135-139): conn.wait() yields the
\* client's command and address, or the error of a request it could not read
WaitCommand ==
    /\ hpc = "wait"
    /\ \E c \in {"Connect", "Associate", "Bind", "Err"} : \E a \in ReqAddrs :
          /\ command' = c
          /\ reqAddr' = IF c = "Err" THEN "none" ELSE a
          /\ IF c = "Err"
             THEN HFinish("Err")
             ELSE /\ hpc' = CASE c # "Connect" -> "reject"
                              [] c = "Connect" /\ ~status -> "direct"
                              [] c = "Connect" /\ status -> "proxy"
                  /\ UNCHANGED <<hresult, upq>>
    /\ UNCHANGED <<status, user_pass, target, errKind, contacted, cliOut,
                   upeof, upOut, selResp, upResp, connResp, connRespLen,
                   hrelaying>>
    /\ UNCHANGED <<srvVars, codVars, relVars, lisVars, autVars, fmtVars, tglVars>>

\* how a TcpStream::connect to an address can end
ConnectOutcomes(a) ==
    {"ok", "refused", "unreachable", "other"} \cup
    (IF a.kind = "Domain" THEN {"resolve"} ELSE {})

\* handle (server.rs 49-54): direct mode, TcpStream::connect to the address;
\* a domain goes through `String::from_utf8(domain).unwrap()` and the resolver
DirectConnect ==
    /\ hpc = "direct"
    /\ IF reqAddr.kind = "Domain" /\ ~IsUtf8(reqAddr.host)
       THEN /\ HFinish("panic")
            /\ UNCHANGED <<target, errKind, contacted>>
       ELSE \E o \in ConnectOutcomes(reqAddr) :
               /\ target' = IF o = "ok" THEN "Ok" ELSE "Err"
               /\ errKind' = IF o = "ok" THEN "none" ELSE o
               /\ contacted' = IF o = "resolve" THEN contacted
                               ELSE contacted \cup {"target"}
               /\ hpc' = IF o = "ok" THEN "reply_ok" ELSE "reply_err"
               /\ UNCHANGED <<hresult, upq>>
    /\ UNCHANGED <<status, user_pass, command, reqAddr, cliOut, upeof, upOut,
                   selResp, upResp, connResp, connRespLen, hrelaying>>
    /\ UNCHANGED <<srvVars, codVars, relVars, lisVars, autVars, fmtVars, tglVars>>

\* SocksStream::connect, connect_with_stream (lib.rs 295-301, 403-404): an
\* error of the handshake or of cmd_connect comes back as an io::Error of
\* kind Other, and the stream to the proxy is dropped
ChainErr ==
    /\ target' = "Err"
    /\ errKind' = "other"
    /\ hpc' = "reply_err"
    /\ upq' = <<>>

\* handle (server.rs 55-70) and SocksStream::connect (lib.rs 292-294): chained
\* mode, the TargetAddr is built (`String::from_utf8(domain).unwrap()`) and
\* TcpStream::connect is made to the configured proxy
ProxyConnect ==
    /\ hpc = "proxy"
    /\ IF reqAddr.kind = "Domain" /\ ~IsUtf8(reqAddr.host)
       THEN /\ HFinish("panic")
            /\ UNCHANGED <<target, errKind, contacted>>
       ELSE \E o \in {"ok", "refused", "unreachable", "other"} :
               /\ contacted' = contacted \cup {"proxy"}
               /\ IF o = "ok"
                  THEN /\ hpc' = "hs_greet"
                       /\ UNCHANGED <<target, errKind>>
                  ELSE /\ target' = "Err"
                       /\ errKind' = o
                       /\ hpc' = "reply_err"
               /\ UNCHANGED <<hresult, upq>>
    /\ UNCHANGED <<status, user_pass, command, reqAddr, cliOut, upeof, upOut,
                   selResp, upResp, connResp, connRespLen, hrelaying>>
    /\ UNCHANGED <<srvVars, codVars, relVars, lisVars, autVars, fmtVars, tglVars>>

\* socks_handshake (lib.rs 310-320): VER, NMETHODS, then UserPass if there
\* are credentials, then NoAuth
ClientGreeting(up) ==
    IF up # "None"
    THEN <<VERSION5, 2, AuthMethodAsU8("UserPass"), AuthMethodAsU8("NoAuth")>>
    ELSE <<VERSION5, 1, AuthMethodAsU8("NoAuth")>>

\* socks_handshake (lib.rs 310-321): the greeting is written
SendGreeting ==
    /\ hpc = "hs_greet"
    /\ \E wrote \in BOOLEAN :
          IF wrote
          THEN /\ upOut' = upOut \o ClientGreeting(user_pass)
               /\ hpc' = "hs_sel"
               /\ UNCHANGED <<target, errKind, upq>>
          ELSE /\ ChainErr
               /\ UNCHANGED upOut
    /\ UNCHANGED <<hresult, status, user_pass, command, reqAddr, contacted,
                   cliOut, upeof, selResp, upResp, connResp, connRespLen,
                   hrelaying>>
    /\ UNCHANGED <<srvVars, codVars, relVars, lisVars, autVars, fmtVars, tglVars>>

\* a handshake that takes any method other than UserPass for NoAuth
SelectionVerdict_Lenient(resp, up) ==
    IF resp[1] # VERSION5 THEN "err"
    ELSE IF resp[2] = AuthMethodAsU8("UserPass")
         THEN (IF up # "None" THEN "userpass" ELSE "err")
    ELSE "ok"

\* socks_handshake (lib.rs 328-366): what the selection response leads to:
\* "userpass" (send the credentials), "ok" (handshake done) or "err"
SelectionVerdict(resp, up) ==
    IF resp[1] # VERSION5 THEN "err"
    ELSE IF resp[2] = AuthMethodAsU8("UserPass")
         THEN (IF up # "None" THEN "userpass" ELSE "err")
    ELSE IF resp[2] # AuthMethodAsU8("NoAuth") THEN "err"
    ELSE "ok"

\* socks_handshake (lib.rs 323-366): read the 2-byte method selection
ReadSelection ==
    /\ hpc = "hs_sel"
    /\ Len(upq) >= 2 \/ upeof
    /\ IF Len(upq) < 2
       THEN /\ ChainErr
            /\ UNCHANGED selResp
       ELSE /\ selResp' = Take(upq, 2)
            /\ LET v == SelectionVerdict(Take(upq, 2), user_pass) IN
               IF v = "err"
               THEN ChainErr
               ELSE /\ hpc' = IF v = "userpass" THEN "hs_up" ELSE "cc_req"
                    /\ upq' = Drop(upq, 2)
                    /\ UNCHANGED <<target, errKind>>
    /\ UNCHANGED <<hresult, status, user_pass, command, reqAddr, contacted,
                   cliOut, upeof, upOut, upResp, connResp, connRespLen,
                   hrelaying>>
    /\ UNCHANGED <<srvVars, codVars, relVars, lisVars, autVars, fmtVars, tglVars>>

\* socks_handshake (lib.rs 338-343): VER, ULEN, UNAME, PLEN, PASSWD
UserPassRequest(up) ==
    <<VERSION5, AsU8(Len(up[1]))>> \o up[1] \o <<AsU8(Len(up[2]))>> \o up[2]

\* socks_handshake (lib.rs 336-344): the credentials are written
SendUserPass ==
    /\ hpc = "hs_up"
    /\ \E wrote \in BOOLEAN :
          IF wrote
          THEN /\ upOut' = upOut \o UserPassRequest(user_pass)
               /\ hpc' = "hs_upresp"
               /\ UNCHANGED <<target, errKind, upq>>
          ELSE /\ ChainErr
               /\ UNCHANGED upOut
    /\ UNCHANGED <<hresult, status, user_pass, command, reqAddr, contacted,
                   cliOut, upeof, selResp, upResp, connResp, connRespLen,
                   hrelaying>>
    /\ UNCHANGED <<srvVars, codVars, relVars, lisVars, autVars, fmtVars, tglVars>>

\* socks_handshake (lib.rs 346-354): read the 2-byte answer, whose second
\* byte must be Success
ReadUserPassResp ==
    /\ hpc = "hs_upresp"
    /\ Len(upq) >= 2 \/ upeof
    /\ IF Len(upq) < 2
       THEN /\ ChainErr
            /\ UNCHANGED upResp
       ELSE /\ upResp' = Take(upq, 2)
            /\ IF upq[2] # ResponseAsU8("Success")
               THEN ChainErr
               ELSE /\ hpc' = "cc_req"
                    /\ upq' = Drop(upq, 2)
                    /\ UNCHANGED <<target, errKind>>
    /\ UNCHANGED <<hresult, status, user_pass, command, reqAddr, contacted,
                   cliOut, upeof, upOut, selResp, connResp, connRespLen,
                   hrelaying>>
    /\ UNCHANGED <<srvVars, codVars, relVars, lisVars, autVars, fmtVars, tglVars>>

\* cmd_connect (lib.rs 376-385): the Connect request for the client's
\* address is written
SendConnect ==
    /\ hpc = "cc_req"
    /\ \E wrote \in BOOLEAN :
          IF wrote
          THEN /\ upOut' = upOut \o ConnectRequest(reqAddr)
               /\ hpc' = "cc_resp"
               /\ UNCHANGED <<target, errKind, upq>>
          ELSE /\ ChainErr
               /\ UNCHANGED upOut
    /\ UNCHANGED <<hresult, status, user_pass, command, reqAddr, contacted,
                   cliOut, upeof, selResp, upResp, connResp, connRespLen,
                   hrelaying>>
    /\ UNCHANGED <<srvVars, codVars, relVars, lisVars, autVars, fmtVars, tglVars>>

\* cmd_connect (lib.rs 387-389): `stream.read(&mut response).await?` on a
\* zeroed 3-byte buffer; neither the count nor the bytes are looked at
ReadConnectResp ==
    /\ hpc = "cc_resp"
    /\ upq # <<>> \/ upeof
    /\ \E k \in (IF upq = <<>> THEN {0} ELSE 1..Min(3, Len(upq))) :
          /\ connResp' = Filled(Take(upq, k), 3)
          /\ connRespLen' = k
          /\ upq' = Drop(upq, k)
    /\ hpc' = "cc_addr"
    /\ UNCHANGED <<hresult, status, user_pass, command, reqAddr, target,
                   errKind, contacted, cliOut, upeof, upOut, selResp, upResp,
                   hrelaying>>
    /\ UNCHANGED <<srvVars, codVars, relVars, lisVars, autVars, fmtVars, tglVars>>

\* cmd_connect (lib.rs 391-394): get_socket_addrs reads the bound address
\* (a domain is looked up) and its value is dropped; then connect_with_stream
\* and SocksStream::connect return Ok (lib.rs 295-296, 403-406).  An address
\* type it does not know comes back as Err(Response::AddrTypeNotSupported),
\* and SocksStream::connect calls to_string() on it (lib.rs 297-300): the
\* Display of Response calls itself (socks.rs 133-137) until the stack
\* overflows, which aborts the process
ReadBoundAddr ==
    /\ hpc = "cc_addr"
    /\ LET r == ParseAddr(upq, upeof) IN
       /\ r.st # "blocked"
       /\ IF r.st = "Err(AddrTypeNotSupported)"
          THEN /\ HFinish("abort")
               /\ UNCHANGED <<target, errKind>>
          ELSE IF r.st # "ok"
          THEN ChainErr
          ELSE \E found \in BOOLEAN :
                  IF r.atyp = "Domain" /\ ~found
                  THEN ChainErr
                  ELSE /\ target' = "Ok"
                       /\ hpc' = "reply_ok"
                       /\ upq' = Drop(upq, r.used)
                       /\ UNCHANGED errKind
    /\ UNCHANGED <<hresult, status, user_pass, command, reqAddr, contacted,
                   cliOut, upeof, upOut, selResp, upResp, connResp,
                   connRespLen, hrelaying>>
    /\ UNCHANGED <<srvVars, codVars, relVars, lisVars, autVars, fmtVars, tglVars>>

\* handle (server.rs 74-85): reply Succeeded with the requested address; a
\* failed write shuts the connection down and returns the error
ReplySucceeded ==
    /\ hpc = "reply_ok"
    /\ \E wrote \in BOOLEAN :
          IF wrote
          THEN /\ cliOut' = cliOut \o ReplyWire("Succeeded", reqAddr)
               /\ hrelaying' = TRUE
               /\ hpc' = "relay"
               /\ UNCHANGED <<hresult, upq>>
          ELSE /\ HFinish("Err")
               /\ UNCHANGED <<cliOut, hrelaying>>
    /\ UNCHANGED <<status, user_pass, command, reqAddr, target, errKind,
                   contacted, upeof, upOut, selResp, upResp, connResp,
                   connRespLen>>
    /\ UNCHANGED <<srvVars, codVars, relVars, lisVars, autVars, fmtVars, tglVars>>

\* handle (server.rs 85-87): copy_bidirectional ends, its result is dropped,
\* both sockets are shut down
HRelayEnd ==
    /\ hpc = "relay"
    /\ HFinish("Ok")
    /\ UNCHANGED <<status, user_pass, command, reqAddr, target, errKind,
                   contacted, cliOut, upeof, upOut, selResp, upResp, connResp,
                   connRespLen, hrelaying>>
    /\ UNCHANGED <<srvVars, codVars, relVars, lisVars, autVars, fmtVars, tglVars>>

\* handle (server.rs 89-102): the connection failed; one reply is written
\* and the connection is closed
ReplyConnectErr ==
    /\ hpc = "reply_err"
    /\ \E wrote \in BOOLEAN :
          IF wrote
          THEN /\ cliOut' = cliOut \o
                      ReplyWire(ConnectErrReply(errKind), Unspecified)
               /\ HFinish("Ok")
          ELSE /\ HFinish("Err")
               /\ UNCHANGED cliOut
    /\ UNCHANGED <<status, user_pass, command, reqAddr, target, errKind,
                   contacted, upeof, upOut, selResp, upResp, connResp,
                   connRespLen, hrelaying>>
    /\ UNCHANGED <<srvVars, codVars, relVars, lisVars, autVars, fmtVars, tglVars>>

\* handle (server.rs 107-132): Associate and Bind are answered with
\* CommandNotSupported and the connection is closed
RejectCommand ==
    /\ hpc = "reject"
    /\ \E wrote \in BOOLEAN :
          IF wrote
          THEN /\ cliOut' = cliOut \o
                      ReplyWire("CommandNotSupported", Unspecified)
               /\ HFinish("Ok")
          ELSE /\ HFinish("Err")
               /\ UNCHANGED cliOut
    /\ UNCHANGED <<status, user_pass, command, reqAddr, target, errKind,
                   contacted, upeof, upOut, selResp, upResp, connResp,
                   connRespLen, hrelaying>>
    /\ UNCHANGED <<srvVars, codVars, relVars, lisVars, autVars, fmtVars, tglVars>>

NextHdl ==
    \/ UpstreamSend
    \/ UpstreamClose
    \/ WaitCommand
    \/ DirectConnect
    \/ ProxyConnect
    \/ SendGreeting
    \/ ReadSelection
    \/ SendUserPass
    \/ ReadUserPassResp
    \/ SendConnect
    \/ ReadConnectResp
    \/ ReadBoundAddr
    \/ ReplySucceeded
    \/ HRelayEnd
    \/ ReplyConnectErr
    \/ RejectCommand

SpecHandle == InitHdl /\ [][NextHdl]_vars

\* ------------------------------------------ properties of handle()

\* the reply code the specification assigns to each kind of failure
ReplyCodeFor(kind) ==
    CASE kind = "resolve" -> 4
      [] kind = "refused" -> 5
      [] kind = "unreachable" -> 3
      [] OTHER -> 1

\* C6: when a CONNECT failed and the session ended with its reply sent,
\* that reply is the only thing sent and its code is the one of the error
\* kind: resolution failure 0x04, connection refused 0x05, network-level
\* failure 0x03, anything else 0x01.
C6_ReplyByErrorKind ==
    (target = "Err" /\ hpc = "closed" /\ hresult = "Ok")
        => /\ Len(cliOut) = 10
           /\ cliOut[1] = 5
           /\ cliOut[2] = ReplyCodeFor(errKind)

OfferedUpstream == IF user_pass = "None" THEN {0} ELSE {0, 2}

\* the upstream proxy answered the chained handshake with a mismatch
UpstreamMismatch ==
    \/ selResp # <<>> /\ selResp[1] # 5
    \/ selResp # <<>> /\ selResp[2] \notin OfferedUpstream
    \/ upResp # <<>> /\ upResp[2] # 0
    \/ connRespLen = 3 /\ connResp[1] # 5
    \/ connRespLen = 3 /\ connResp[2] # 0

\* C8: after a mismatch in the upstream proxy's answers the connector
\* does not return Ok, no Success reply goes to the client and nothing is
\* relayed.
C8_MismatchIsError ==
    UpstreamMismatch
        => /\ target # "Ok"
           /\ ~hrelaying
           /\ (cliOut # <<>> => cliOut[2] # 0)

\* C17: the mode flag alone selects the outbound path.  With chained mode
\* off only the requested target is contacted and nothing is written to an
\* upstream proxy; with chained mode on only the proxy is contacted, and
\* the Connect request written to it is [5, 1, 0] followed by an address
\* that decodes to the client's TargetAddress: same variant, same address
\* bytes, same port, nothing left over.
C17_ModeSelectsPath ==
    /\ [](~status => contacted \subseteq {"target"} /\ upOut = <<>>)
    /\ [](status => contacted \subseteq {"proxy"})
    /\ [][(hpc = "cc_req" /\ upOut' # upOut) =>
            LET req == Drop(upOut', Len(upOut))
                d == ParseAddr(Drop(req, 3), TRUE)
            IN /\ Take(req, 3) = <<5, 1, 0>>
               /\ d.st = "ok"
               /\ d.used = Len(req) - 3
               /\ d.atyp = reqAddr.kind
               /\ d.addr = reqAddr.host
               /\ d.port = reqAddr.port]_vars

GreetingMethods(g) == {g[i] : i \in 3..(2 + g[2])}

\* C20: the upstream client's greeting offers NoAuth always and UserPass
\* iff credentials were given, and its NMETHODS byte counts the method
\* bytes that follow; the username/password request is written only when
\* the proxy selected UserPass and credentials were given; the Connect
\* request is written only after the method exchange succeeded (version 5
\* and NoAuth, or UserPass followed by a success status).
C20_UpstreamClient ==
    /\ [](upOut # <<>> =>
            /\ upOut[1] = VERSION5
            /\ Len(upOut) >= 2 + upOut[2]
            /\ 0 \in GreetingMethods(upOut)
            /\ (2 \in GreetingMethods(upOut)) <=> (user_pass # "None")
            /\ GreetingMethods(upOut) \subseteq {0, 2})
    /\ [][(upOut = <<>> /\ upOut' # <<>>) =>
            Len(upOut') = 2 + upOut'[2]]_vars
    /\ [][(hpc = "hs_up" /\ upOut' # upOut) =>
            /\ selResp = <<5, 2>>
            /\ user_pass # "None"
            /\ upOut' = upOut \o <<5, 1, 97, 1, 98>>]_vars
    /\ [][(hpc = "cc_req" /\ upOut' # upOut) =>
            /\ selResp # <<>>
            /\ selResp[1] = 5
            /\ \/ selResp[2] = 0
               \/ /\ selResp[2] = 2
                  /\ user_pass # "None"
                  /\ upResp # <<>>
                  /\ upResp[2] = 0]_vars

\* credentials were asked for, sent and accepted, and the Connect request
\* has gone out
C20_Witness ==
    /\ hpc = "cc_resp"
    /\ selResp = <<5, 2>>
    /\ Len(upResp) = 2
    /\ upResp[2] = 0
    /\ Len(upOut) > 9

\* the position of a server session in its single pass
PcRank(p) ==
    CASE p = "idle" -> 0
      [] p = "serve" -> 1
      [] p = "methods" -> 2
      [] p = "auth" -> 3
      [] p = "ulen" -> 4
      [] p = "uname" -> 5
      [] p = "plen" -> 6
      [] p = "passwd" -> 7
      [] p = "check" -> 8
      [] p = "req" -> 9
      [] p = "atyp" -> 10
      [] p = "dispatch" -> 11
      [] p = "connect" -> 12
      [] p = "reply" -> 13
      [] p = "relay" -> 14
      [] p = "closed" -> 15

\* the position of handle() in its single pass
HpcRank(p) ==
    CASE p = "idle" -> 0
      [] p = "wait" -> 1
      [] p \in {"direct", "proxy"} -> 2
      [] p = "hs_greet" -> 3
      [] p = "hs_sel" -> 4
      [] p = "hs_up" -> 5
      [] p = "hs_upresp" -> 6
      [] p = "cc_req" -> 7
      [] p = "cc_resp" -> 8
      [] p = "cc_addr" -> 9
      [] p \in {"reply_ok", "reply_err", "reject"} -> 10
      [] p = "relay" -> 11
      [] p = "closed" -> 12

\* the session only moves forward, and a closed one does nothing more:
\* handle() of server.rs
C19_HandleSinglePass ==
    [][/\ HpcRank(hpc') >= HpcRank(hpc)
       /\ hpc = "closed" => UNCHANGED <<hpc, hresult, cliOut, upOut, upq,
                                        contacted, hrelaying>>]_vars

\* C19: a session is single-pass.  Its position never moves back (Greeting,
\* method selection, authentication, command, connecting, relaying, closed,
\* each entered at most once); once closed it reads nothing, writes nothing
\* and connects nowhere; and from wherever it is it gets to closed when the
\* task is scheduled and the client keeps sending or closes.
C19_SinglePass ==
    /\ [][/\ PcRank(pc') >= PcRank(pc)
          /\ pc = "closed" => UNCHANGED <<pc, result, inq, out, connected,
                                          authCalls, relaying>>]_vars
    /\ C19_HandleSinglePass
    /\ <>(pc = "closed")

\* a session that went through every stage and ended
C19_Witness ==
    /\ pc = "closed"
    /\ result = "Ok"
    /\ selected = "UserPass"
    /\ relaying

\* ===================================================================
\* SpecCodec: a TargetAddr written by cmd_connect and read back by
\* get_socket_addrs
\* ===================================================================
\* the names a String can hold here: "a" and "b" in any order, and one of
\* 256 bytes
LongName == [i \in 1..256 |-> 97]
DomainNames == SeqsUpTo({97, 98}, MaxName) \cup {LongName}
\* bytes that follow the address in the stream
Trails == SeqsUpTo({7}, MaxTrail) \ {<<>>}
TargetPorts == {0, 80, 65535}
TargetAddrs ==
    {[kind |-> "V4", host |-> h, port |-> p] :
        h \in {<<127, 0, 0, 1>>, <<10, 0, 0, 2>>}, p \in TargetPorts}
    \cup
    {[kind |-> "V6", host |-> h, port |-> p] :
        h \in {Zeros(15) \o <<1>>, <<32, 1, 13, 184>> \o Zeros(11) \o <<255>>},
        p \in TargetPorts}
    \cup
    {[kind |-> "Domain", host |-> h, port |-> p] :
        h \in DomainNames, p \in TargetPorts}

\* the (username, password) pairs given to SocksStream::connect: short ones
\* and a username of 256 bytes
LongUserPass == {<<u, p>> : u \in {<<97>>, LongName}, p \in {<<>>, <<98>>}}

InitCod ==
    /\ IdleSrv
    /\ IdleHdl
    /\ IdleRel
    /\ IdleLis
    /\ IdleAut
    /\ IdleFmt
    /\ IdleTgl
    /\ stage = "new"
    /\ target_addr \in TargetAddrs
    /\ wire = <<>>
    /\ weof = FALSE
    /\ decoded = [st |-> "none"]
    /\ unread = <<>>
    /\ userpass \in LongUserPass
    /\ upreq = <<>>

\* socks_handshake (lib.rs 336-344) writes the UserPass request, before
\* cmd_connect runs
WriteUserPass ==
    /\ stage = "new"
    /\ upreq = <<>>
    /\ upreq' = UserPassRequest(userpass)
    /\ UNCHANGED <<stage, target_addr, wire, weof, decoded, unread, userpass>>
    /\ UNCHANGED <<srvVars, hdlVars, relVars, lisVars, autVars, fmtVars, tglVars>>

\* cmd_connect (lib.rs 383-385) writes the address
Encode ==
    /\ stage = "new"
    /\ wire' = AddrWire(target_addr)
    /\ stage' = "encoded"
    /\ UNCHANGED <<target_addr, weof, decoded, unread, userpass, upreq>>
    /\ UNCHANGED <<srvVars, hdlVars, relVars, lisVars, autVars, fmtVars, tglVars>>

\* the stream ends: after the address, or with only its first k bytes through
Cut ==
    /\ stage = "encoded"
    /\ ~weof
    /\ \E k \in 0..Len(wire) : wire' = Take(wire, k)
    /\ weof' = TRUE
    /\ UNCHANGED <<stage, target_addr, decoded, unread, userpass, upreq>>
    /\ UNCHANGED <<srvVars, hdlVars, relVars, lisVars, autVars, fmtVars, tglVars>>

\* more bytes follow the address in the stream (the peer's next message)
Trail ==
    /\ stage = "encoded"
    /\ ~weof
    /\ wire = AddrWire(target_addr)
    /\ \E t \in Trails : wire' = wire \o t
    /\ UNCHANGED <<stage, target_addr, weof, decoded, unread, userpass, upreq>>
    /\ UNCHANGED <<srvVars, hdlVars, relVars, lisVars, autVars, fmtVars, tglVars>>

\* get_socket_addrs (socks.rs 47-115) reads the address and, for a domain
\* that was read whole, looks it up (socks.rs 108-113): `lookup` is how that
\* ended
Decode ==
    /\ stage = "encoded"
    /\ LET r == ParseAddr(wire, weof) IN
       /\ r.st # "blocked"
       /\ \E found \in BOOLEAN :
             decoded' =
                [lookup |-> IF r.st = "ok" /\ r.atyp = "Domain"
                            THEN (IF found THEN "found" ELSE "failed")
                            ELSE "none"] @@ r
       /\ unread' = Drop(wire, r.used)
    /\ stage' = "decoded"
    /\ UNCHANGED <<target_addr, wire, weof, userpass, upreq>>
    /\ UNCHANGED <<srvVars, hdlVars, relVars, lisVars, autVars, fmtVars, tglVars>>

NextCod ==
    \/ WriteUserPass
    \/ Encode
    \/ Trail
    \/ Cut
    \/ Decode

SpecCodec == InitCod /\ [][NextCod]_vars

\* a TargetAddress the specification calls valid: IPv4, IPv6, or a domain
\* of 1 to 255 bytes
ValidTargetAddr(a) == a.kind = "Domain" => Len(a.host) \in 1..255

\* C9: decoding the bytes written for a valid TargetAddr gives the address
\* back: the same variant, the same address bytes, the same port.
C9_RoundTrip ==
    (stage = "decoded" /\ ValidTargetAddr(target_addr) /\
     wire = AddrWire(target_addr))
        => /\ decoded.st = "ok"
           /\ decoded.atyp = target_addr.kind
           /\ decoded.addr = target_addr.host
           /\ decoded.port = target_addr.port

\* C22: a domain address whose fields have all arrived is decoded by taking,
\* after the address-type byte, the length byte, that many name bytes and
\* two port bytes, whether the lookup of the name then succeeds or fails;
\* what follows the port stays in the stream.
C22_DomainConsumes ==
    (stage = "decoded" /\ FieldsComplete(wire) /\ wire[1] = 3)
        => /\ decoded.st = "ok"
           /\ decoded.used - 1 = 1 + wire[2] + 2
           /\ Len(decoded.addr) = wire[2]
           /\ unread = SubSeq(wire, 1 + 1 + wire[2] + 2 + 1, Len(wire))

\* a domain of one byte was decoded, its lookup failed, and a byte that
\* followed the port is still in the stream
C22_Witness ==
    /\ stage = "decoded"
    /\ decoded.st = "ok"
    /\ decoded.atyp = "Domain"
    /\ decoded.lookup = "failed"
    /\ Len(decoded.addr) = 1
    /\ unread # <<>>

\* C23: in the UserPass request and in the address of the Connect request,
\* a length byte is the number of bytes of the field after it, also for
\* strings of more than 255 bytes.
C23_LengthBytes ==
    [][/\ (upreq = <<>> /\ upreq' # <<>>) =>
             /\ upreq'[2] = Len(userpass[1])
             /\ upreq'[2 + Len(userpass[1]) + 1] = Len(userpass[2])
       /\ (stage = "new" /\ stage' = "encoded" /\
           target_addr.kind = "Domain") =>
             wire'[2] = Len(target_addr.host)]_vars

\* ===================================================================
\* SpecRelay: the relay of an established session, as cmd_connect runs it
\* (lib.rs 238-253: two copy-then-shutdown futures under try_join) and as
\* handle runs it (server.rs 85-87: copy_bidirectional, then both shutdowns)
\* ===================================================================
Other(d) == IF d = "c2t" THEN "t2c" ELSE "c2t"
\* the socket a direction writes to: `wo` of dest, `wi` of self.socket
Dest(d) == IF d = "c2t" THEN "target" ELSE "client"

InitRel ==
    /\ IdleSrv
    /\ IdleHdl
    /\ IdleCod
    /\ IdleLis
    /\ IdleAut
    /\ IdleFmt
    /\ IdleTgl
    /\ rimpl \in {"try_join", "copy_bidirectional"}
    /\ rpc = "relay"
    /\ rresult = "running"
    /\ sresult = "running"
    /\ sent = [d \in Dirs |-> 0]
    /\ pending = [d \in Dirs |-> 0]
    /\ srcEof = [d \in Dirs |-> FALSE]
    /\ delivered = [d \in Dirs |-> 0]
    /\ dirst = [d \in Dirs |-> "copy"]
    /\ wshut = [k \in Socks |-> FALSE]
    /\ sockClosed = [k \in Socks |-> FALSE]
    /\ late = [d \in Dirs |-> 0]

\* a relay whose directions copy only while neither has ended
Copying_UntilFirstEof(d) ==
    rresult = "running" /\ \A e \in Dirs : dirst[e] = "copy"

\* tokio::io::copy of direction d is still being polled (lib.rs 242, 247)
Copying(d) == rresult = "running" /\ dirst[d] = "copy"

\* the peer at the source of direction d writes a byte
PeerWrite(d) ==
    /\ rpc = "relay"
    /\ ~srcEof[d]
    /\ sent[d] < MaxBytes
    /\ sent' = [sent EXCEPT ![d] = @ + 1]
    /\ pending' = [pending EXCEPT ![d] = @ + 1]
    /\ UNCHANGED <<rimpl, rpc, rresult, sresult, srcEof, delivered, dirst,
                   wshut, sockClosed, late>>
    /\ UNCHANGED <<srvVars, hdlVars, codVars, lisVars, autVars, fmtVars, tglVars>>

\* the peer at the source of direction d shuts down its sending side
PeerShutdown(d) ==
    /\ rpc = "relay"
    /\ ~srcEof[d]
    /\ srcEof' = [srcEof EXCEPT ![d] = TRUE]
    /\ UNCHANGED <<rimpl, rpc, rresult, sresult, sent, pending, delivered,
                   dirst, wshut, sockClosed, late>>
    /\ UNCHANGED <<srvVars, hdlVars, codVars, lisVars, autVars, fmtVars, tglVars>>

\* copy (lib.rs 242, 247): bytes that have arrived are read and written on
CopyStep(d) ==
    /\ Copying(d)
    /\ pending[d] > 0
    /\ \E k \in 1..pending[d] :
          /\ pending' = [pending EXCEPT ![d] = @ - k]
          /\ delivered' = [delivered EXCEPT ![d] = @ + k]
          /\ late' = [late EXCEPT ![d] =
                         IF dirst[Other(d)] = "done" THEN @ + k ELSE @]
    /\ UNCHANGED <<rimpl, rpc, rresult, sresult, sent, srcEof, dirst, wshut,
                   sockClosed>>
    /\ UNCHANGED <<srvVars, hdlVars, codVars, lisVars, autVars, fmtVars, tglVars>>

\* copy (lib.rs 242, 247) reads end-of-stream and returns Ok
CopyEof(d) ==
    /\ Copying(d)
    /\ pending[d] = 0
    /\ srcEof[d]
    /\ dirst' = [dirst EXCEPT ![d] = "eof"]
    /\ UNCHANGED <<rimpl, rpc, rresult, sresult, sent, pending, srcEof,
                   delivered, wshut, sockClosed, late>>
    /\ UNCHANGED <<srvVars, hdlVars, codVars, lisVars, autVars, fmtVars, tglVars>>

\* `wo.shutdown().await` / `wi.shutdown().await` (lib.rs 243, 248): the
\* write side of the destination is shut down and the direction's future
\* is done; with the other one done too, try_join returns Ok (lib.rs 251)
ShutdownWrite(d) ==
    /\ rresult = "running"
    /\ dirst[d] = "eof"
    /\ wshut' = [wshut EXCEPT ![Dest(d)] = TRUE]
    /\ dirst' = [dirst EXCEPT ![d] = "done"]
    /\ IF dirst[Other(d)] = "done"
       THEN rresult' = "Ok" /\ rpc' = "returning"
       ELSE UNCHANGED <<rresult, rpc>>
    /\ UNCHANGED <<rimpl, sresult, sent, pending, srcEof, delivered,
                   sockClosed, late>>
    /\ UNCHANGED <<srvVars, hdlVars, codVars, lisVars, autVars, fmtVars, tglVars>>

\* a relay that lets the other direction run on after an error
Abandon_Never(st) == st

\* try_join (lib.rs 251) returns at the first Err and its other future is
\* dropped where it stands; copy_bidirectional (server.rs 85) does the same
Abandon(st) == IF st \in {"copy", "eof"} THEN "dropped" ELSE st

\* a read, a write or a shutdown of direction d fails
IoError(d) ==
    /\ rresult = "running"
    /\ dirst[d] \in {"copy", "eof"}
    /\ dirst' = [e \in Dirs |-> IF e = d THEN "err" ELSE Abandon(dirst[e])]
    /\ rresult' = "Err"
    /\ rpc' = "returning"
    /\ UNCHANGED <<rimpl, sresult, sent, pending, srcEof, delivered, wshut,
                   sockClosed, late>>
    /\ UNCHANGED <<srvVars, hdlVars, codVars, lisVars, autVars, fmtVars, tglVars>>

\* the relay is over.  cmd_connect returns what try_join returned and
\* `dest`, then the session's socket, are dropped (lib.rs 251-253, 87-90);
\* handle drops the result, shuts both streams down, returns Ok(()) and
\* drops them (server.rs 85-87, 141)
RelayReturn ==
    /\ rpc = "returning"
    /\ rpc' = "closed"
    /\ sresult' = IF rimpl = "try_join" THEN rresult ELSE "Ok"
    /\ wshut' = IF rimpl = "try_join" THEN wshut ELSE [k \in Socks |-> TRUE]
    /\ sockClosed' = [k \in Socks |-> TRUE]
    /\ UNCHANGED <<rimpl, rresult, sent, pending, srcEof, delivered, dirst,
                   late>>
    /\ UNCHANGED <<srvVars, hdlVars, codVars, lisVars, autVars, fmtVars, tglVars>>

NextRel ==
    \/ \E d \in Dirs : PeerWrite(d)
    \/ \E d \in Dirs : PeerShutdown(d)
    \/ \E d \in Dirs : CopyStep(d)
    \/ \E d \in Dirs : CopyEof(d)
    \/ \E d \in Dirs : ShutdownWrite(d)
    \/ \E d \in Dirs : IoError(d)
    \/ RelayReturn

\* the function that ran the relay returns once the relay is over: nothing
\* it awaits after that depends on a peer
SpecRelay == InitRel /\ [][NextRel]_vars /\ WF_vars(RelayReturn)

\* C12: when a direction reaches a clean end-of-stream (everything its
\* source wrote was delivered), the write side of its destination, and
\* only then, is shut down; the relay goes on while the other direction
\* copies, and that direction can still copy what is pending; the relay
\* returns Ok only with both directions at end-of-stream and shut down.
C12_HalfClose ==
    /\ \A d \in Dirs :
          /\ dirst[d] = "done" =>
                 /\ wshut[Dest(d)]
                 /\ srcEof[d]
                 /\ pending[d] = 0
                 /\ delivered[d] = sent[d]
          /\ (rpc = "relay" /\ wshut[Dest(d)]) => dirst[d] = "done"
          /\ (dirst[d] \in {"eof", "done"} /\ dirst[Other(d)] = "copy") =>
                 rresult = "running"
          /\ (dirst[d] = "done" /\ dirst[Other(d)] = "copy" /\
              pending[Other(d)] > 0) => ENABLED CopyStep(Other(d))
    /\ rresult = "Ok" => \A d \in Dirs : dirst[d] = "done"

\* the client half-closed first, the target's bytes still went through, and
\* the relay ended well
C12_Witness ==
    /\ rresult = "Ok"
    /\ late["t2c"] > 0
    /\ rpc = "closed"

\* C13: an I/O error in either direction ends the whole relay: from then on
\* no direction is copying and nothing more is delivered, and the client
\* socket and the target socket both get closed.
C13_ErrorEndsRelay ==
    /\ [](rresult = "Err" => \A d \in Dirs : dirst[d] \notin {"copy", "eof"})
    /\ [][rresult = "Err" => UNCHANGED <<delivered, pending, dirst>>]_vars
    /\ [](rpc = "closed" => \A k \in Socks : sockClosed[k])
    /\ (rresult = "Err") ~> (\A k \in Socks : sockClosed[k])

\* an error towards the client cut off a direction that had bytes to copy
C13_Witness ==
    /\ rresult = "Err"
    /\ dirst["t2c"] = "err"
    /\ dirst["c2t"] = "dropped"
    /\ pending["c2t"] > 0
    /\ \A k \in Socks : sockClosed[k]

\* ===================================================================
\* SpecListener: the accept loop and the sessions it has spawned, for
\* SocksServer::serve (lib.rs 79-94) and for server (server.rs 20-41)
\* ===================================================================
\* how a session can end: what SocksServerConnection::serve returns (the
\* values of `result`), what the task around handle ends with (the values
\* of `hresult`)
SessionOutcomes(impl) ==
    IF impl = "SocksServer"
    THEN {"Ok", "Err(io)", "Err(Failure)", "Err(CommandNotSupported)",
          "Err(AddrTypeNotSupported)", "panic"}
    ELSE {"Ok", "Err", "panic", "abort"}

\* the errors that are a Response: to_string() on one never returns,
\* `write!(f, "Error: {}", self)` formats self with the same fmt
\* (socks.rs 133-137)
IsResponse(o) ==
    o \in {"Err(Failure)", "Err(CommandNotSupported)",
           "Err(AddrTypeNotSupported)"}

\* the end of a session that takes the process down: a stack overflow is
\* not a panic, the runtime aborts.  In SocksServer::serve it is
\* `error!("{}", err.to_string())` (lib.rs 89), evaluated when the logger
\* takes error records (main.rs 17 sets one up); under server it is the
\* to_string() inside SocksStream::connect (lib.rs 297-300)
Aborts(impl, o, log) ==
    IF impl = "SocksServer" THEN IsResponse(o) /\ log ELSE o = "abort"

InitLis ==
    /\ IdleSrv
    /\ IdleHdl
    /\ IdleCod
    /\ IdleRel
    /\ IdleAut
    /\ IdleFmt
    /\ IdleTgl
    /\ limpl \in {"SocksServer", "server"}
    /\ log_error \in BOOLEAN
    /\ alive = TRUE
    /\ sess = [i \in Sessions |-> "none"]
    /\ accepted = 0

\* accept() returns a connection and a task is spawned for it
\* (lib.rs 82-86, server.rs 27-29)
Accept(i) ==
    /\ alive
    /\ sess[i] = "none"
    /\ sess' = [sess EXCEPT ![i] = "running"]
    /\ accepted' = accepted + 1
    /\ UNCHANGED <<limpl, log_error, alive>>
    /\ UNCHANGED <<srvVars, hdlVars, codVars, relVars, autVars, fmtVars, tglVars>>

\* a session ends and its outcome is logged (lib.rs 87-90, server.rs
\* 30-36); a panic ends its task only
SessionEnd(i) ==
    /\ alive
    /\ sess[i] = "running"
    /\ \E o \in SessionOutcomes(limpl) :
          IF Aborts(limpl, o, log_error)
          THEN /\ alive' = FALSE
               /\ sess' = [j \in Sessions |->
                              IF j = i THEN o
                              ELSE IF sess[j] = "running" THEN "killed"
                              ELSE sess[j]]
          ELSE /\ sess' = [sess EXCEPT ![i] = o]
               /\ UNCHANGED alive
    /\ UNCHANGED <<limpl, log_error, accepted>>
    /\ UNCHANGED <<srvVars, hdlVars, codVars, relVars, autVars, fmtVars, tglVars>>

NextLis ==
    \/ \E i \in Sessions : Accept(i)
    \/ \E i \in Sessions : SessionEnd(i)

SpecListener == InitLis /\ [][NextLis]_vars

\* C14: whatever way a session ends, and whatever is logged about it, the
\* listener goes on accepting and no other session is cut short.
C14_SessionIsolation ==
    /\ alive
    /\ \A i \in Sessions : sess[i] # "killed"

\* ===================================================================
\* SpecAuth: sessions that authenticate through the auth channel and the
\* worker of SocksServer::new (lib.rs 36-43, 172-175)
\* ===================================================================
\* the (username, password) pairs a session may have read: the one user
\* the validator knows, and a wrong password
Creds == {<< <<97>>, <<98>> >>, << <<97>>, <<97>> >>}

\* a bool as it is kept in `answer`
BoolStr(b) == IF b THEN "true" ELSE "false"

\* `mpsc::channel::<AuthCheckMsg>(100)` (lib.rs 36): send() goes through
\* while the channel has room and waits otherwise
HasRoom(q) == Len(q) < MaxQueued

\* a worker that answers on the oneshot channel of the first session
ReplyTo_First(j) == 1

\* the oneshot::Sender travels in the message (lib.rs 19, 38-39, 173-174):
\* the answer for a message goes to the session that sent it
ReplyTo(j) == j

\* a worker whose loop ends at the first answer it cannot deliver
OnSendErr_Stop(w) == "stopped"

\* the worker loop (lib.rs 38-42): `if let Err(_) = sender.send(..)` logs
\* and falls through to the next `rx.recv()`
OnSendErr(w) == w

InitAut ==
    /\ IdleSrv
    /\ IdleHdl
    /\ IdleCod
    /\ IdleRel
    /\ IdleLis
    /\ IdleFmt
    /\ IdleTgl
    /\ ast = [i \in Sessions |-> "idle"]
    /\ cred = [i \in Sessions |-> << <<>>, <<>> >>]
    /\ chan = <<>>
    /\ job = 0
    /\ validating = 0
    /\ answer = [i \in Sessions |-> "none"]
    /\ calls = [i \in Sessions |-> 0]
    /\ worker = "running"
    /\ failedSends = 0

\* auth (lib.rs 150-170): a session has read its username and password
ReadCreds(s) ==
    /\ ast[s] = "idle"
    /\ \E c \in Creds : cred' = [cred EXCEPT ![s] = c]
    /\ ast' = [ast EXCEPT ![s] = "ready"]
    /\ UNCHANGED <<chan, job, validating, answer, calls, worker, failedSends>>
    /\ UNCHANGED <<srvVars, hdlVars, codVars, relVars, lisVars, fmtVars, tglVars>>

\* auth (lib.rs 173-174): `self.auth_ch.send((username, password, tx)).await`
\* completes when the channel has room
SendAuth(s) ==
    /\ ast[s] = "ready"
    /\ HasRoom(chan)
    /\ chan' = Append(chan, s)
    /\ ast' = [ast EXCEPT ![s] = "waiting"]
    /\ UNCHANGED <<cred, job, validating, answer, calls, worker, failedSends>>
    /\ UNCHANGED <<srvVars, hdlVars, codVars, relVars, lisVars, fmtVars, tglVars>>

\* the worker (lib.rs 38-39): `rx.recv().await` yields the oldest message
\* and the validator is called with it
WorkerRecv ==
    /\ worker = "running"
    /\ job = 0
    /\ chan # <<>>
    /\ job' = Head(chan)
    /\ chan' = Tail(chan)
    /\ validating' = validating + 1
    /\ calls' = [calls EXCEPT ![Head(chan)] = @ + 1]
    /\ UNCHANGED <<ast, cred, answer, worker, failedSends>>
    /\ UNCHANGED <<srvVars, hdlVars, codVars, relVars, lisVars, fmtVars, tglVars>>

\* the worker (lib.rs 39-41): the validator returns and `sender.send(..)`
\* puts its answer on the oneshot channel, or fails when the receiver was
\* dropped, which is logged; the loop goes back to recv
WorkerSend ==
    /\ job # 0
    /\ IF ast[ReplyTo(job)] = "gone"
       THEN /\ failedSends' = failedSends + 1
            /\ worker' = OnSendErr(worker)
            /\ UNCHANGED answer
       ELSE /\ answer' = [answer EXCEPT ![ReplyTo(job)] =
                             BoolStr(auth(cred[job][1], cred[job][2]))]
            /\ UNCHANGED <<worker, failedSends>>
    /\ validating' = validating - 1
    /\ job' = 0
    /\ UNCHANGED <<ast, cred, chan, calls>>
    /\ UNCHANGED <<srvVars, hdlVars, codVars, relVars, lisVars, fmtVars, tglVars>>

\* auth (lib.rs 175): `rx.await?` returns the answer
RecvAnswer(s) ==
    /\ ast[s] = "waiting"
    /\ answer[s] # "none"
    /\ ast' = [ast EXCEPT ![s] = "answered"]
    /\ UNCHANGED <<cred, chan, job, validating, answer, calls, worker,
                   failedSends>>
    /\ UNCHANGED <<srvVars, hdlVars, codVars, relVars, lisVars, fmtVars, tglVars>>

NextAut ==
    \/ \E s \in Sessions : ReadCreds(s)
    \/ \E s \in Sessions : SendAuth(s)
    \/ WorkerRecv
    \/ WorkerSend
    \/ \E s \in Sessions : RecvAnswer(s)

\* the worker and the sessions are tasks of a runtime that polls a task
\* that can run
SpecAuth ==
    /\ InitAut
    /\ [][NextAut]_vars
    /\ WF_vars(WorkerRecv)
    /\ WF_vars(WorkerSend)
    /\ \A s \in Sessions : WF_vars(RecvAnswer(s))

\* how many messages of session s are in the channel
InChan(s) == Cardinality({i \in 1..Len(chan) : chan[i] = s})

\* C15: the channel never holds more than its capacity and a session sends
\* only when there is room, so a sender that finds it full waits; a request
\* that was sent is in exactly one place (the channel, the worker, or
\* answered) and so is never dropped; at most one validator call is in progress;
\* an answer is the validator's verdict on the credentials of the session
\* that receives it, from one call; and every request sent is answered in
\* the end.
C15_AuthChannel ==
    /\ [](Len(chan) <= MaxQueued)
    /\ [](validating <= 1)
    /\ [](\A s \in Sessions :
            ast[s] = "waiting" =>
               InChan(s) + (IF job = s THEN 1 ELSE 0) +
               (IF answer[s] # "none" THEN 1 ELSE 0) = 1)
    /\ [](\A s \in Sessions :
            answer[s] # "none" =>
               /\ ast[s] \in {"waiting", "answered"}
               /\ calls[s] = 1
               /\ answer[s] = BoolStr(<<cred[s][1], cred[s][2]>> \in Users))
    /\ [][\A s \in Sessions :
            (ast[s] = "ready" /\ ast'[s] = "waiting") =>
               /\ Len(chan) < MaxQueued
               /\ chan' = Append(chan, s)]_vars
    /\ \A s \in Sessions : (ast[s] = "waiting") ~> (ast[s] = "answered")

\* the channel is full and a session waits to send, while another has its
\* answer already
C15_Witness ==
    /\ Len(chan) = MaxQueued
    /\ \E s \in Sessions : ast[s] = "ready"
    /\ \E t \in Sessions : ast[t] = "answered" /\ answer[t] = "false"

\* ===================================================================
\* SpecAuthDrop: the auth channel with sessions whose task is dropped while
\* it waits at `rx.await` (lib.rs 175), which drops its oneshot receiver
\* ===================================================================
\* the session's task is dropped after its send (lib.rs 174) and before
\* `rx.await` (lib.rs 175) returned
SessionGone(s) ==
    /\ ast[s] = "waiting"
    /\ ast' = [ast EXCEPT ![s] = "gone"]
    /\ UNCHANGED <<cred, chan, job, validating, answer, calls, worker,
                   failedSends>>
    /\ UNCHANGED <<srvVars, hdlVars, codVars, relVars, lisVars, fmtVars, tglVars>>

NextAutDrop ==
    \/ \E s \in Sessions : ReadCreds(s)
    \/ \E s \in Sessions : SendAuth(s)
    \/ WorkerRecv
    \/ WorkerSend
    \/ \E s \in Sessions : RecvAnswer(s)
    \/ \E s \in Sessions : SessionGone(s)

SpecAuthDrop ==
    /\ InitAut
    /\ [][NextAutDrop]_vars
    /\ WF_vars(WorkerRecv)
    /\ WF_vars(WorkerSend)
    /\ \A s \in Sessions : WF_vars(RecvAnswer(s))

\* C26: the worker never stops; an answer for a session that has gone away
\* is a failed send that is logged, once, and the worker is free for the
\* next request after it; a request that was sent is in the channel or has
\* had its one validator call; and in the end the channel is
\* empty, the worker is idle and no session is left waiting for an answer.
C26_WorkerSurvives ==
    /\ [](worker = "running")
    /\ [][(job # 0 /\ job' = 0) =>
            /\ failedSends' =
                  failedSends + (IF ast[job] = "gone" THEN 1 ELSE 0)
            /\ validating' = 0]_vars
    /\ [](\A s \in Sessions :
            ast[s] \in {"waiting", "answered", "gone"} =>
               (InChan(s) + calls[s] = 1 /\ (job = s => calls[s] = 1)))
    /\ <>[](/\ chan = <<>>
            /\ job = 0
            /\ \A s \in Sessions : ast[s] # "waiting")

\* after a failed send the worker holds the request of a session that waits
C26_Witness ==
    /\ failedSends >= 1
    /\ job # 0
    /\ ast[job] = "waiting"

\* ===================================================================
\* SpecDisplay: the accept loop's task reports the error a session ended
\* with: `error!("{}", err.to_string())` (lib.rs 87-90), with Display for
\* Response (socks.rs 132-137)
\* ===================================================================
\* the Response errors a server session ends with (lib.rs 127, 213;
\* socks.rs 55)
ResponseErrors == {"Failure", "CommandNotSupported", "AddrTypeNotSupported"}
\* the errors of a session: a Response, or an io::Error of a read or write
SessionErrors == ResponseErrors \cup {"io"}

InitFmt ==
    /\ IdleSrv
    /\ IdleHdl
    /\ IdleCod
    /\ IdleRel
    /\ IdleLis
    /\ IdleAut
    /\ IdleTgl
    /\ fpc = "report"
    /\ ferr \in SessionErrors
    /\ frames = 0
    /\ written = 0

\* lib.rs 89: `err.to_string()` calls Display::fmt of the error
to_string ==
    /\ fpc = "report"
    /\ fpc' = "fmt"
    /\ frames' = 1
    /\ UNCHANGED <<ferr, written>>
    /\ UNCHANGED <<srvVars, hdlVars, codVars, relVars, lisVars, autVars, tglVars>>

\* Display::fmt of io::Error writes its message and returns
FmtIo ==
    /\ fpc = "fmt"
    /\ ferr = "io"
    /\ written' = written + 1
    /\ frames' = frames - 1
    /\ fpc' = "returned"
    /\ UNCHANGED ferr
    /\ UNCHANGED <<srvVars, hdlVars, codVars, relVars, lisVars, autVars, tglVars>>

\* Display::fmt of Response (socks.rs 133-137): `write!(f, "Error: {}", self)`
\* writes "Error: " and formats self with Display, which is this function:
\* one more frame, until the stack has no room for it and the process is
\* aborted
FmtResponse ==
    /\ fpc = "fmt"
    /\ ferr \in ResponseErrors
    /\ written' = written + 1
    /\ IF frames < MaxStack
       THEN /\ frames' = frames + 1
            /\ UNCHANGED fpc
       ELSE /\ fpc' = "aborted"
            /\ UNCHANGED frames
    /\ UNCHANGED ferr
    /\ UNCHANGED <<srvVars, hdlVars, codVars, relVars, lisVars, autVars, tglVars>>

\* lib.rs 89-91: the record is logged and the spawned task finishes
TaskEnd ==
    /\ fpc = "returned"
    /\ fpc' = "finished"
    /\ UNCHANGED <<ferr, frames, written>>
    /\ UNCHANGED <<srvVars, hdlVars, codVars, relVars, lisVars, autVars, tglVars>>

NextFmt ==
    \/ to_string
    \/ FmtIo
    \/ FmtResponse
    \/ TaskEnd

\* the reporting task is scheduled while it can run
SpecDisplay == InitFmt /\ [][NextFmt]_vars /\ WF_vars(NextFmt)

\* C24: the report of a session's Response error terminates: Display
\* returns with every frame popped and the task finishes; the stack is
\* never exhausted.
C24_ReportTerminates ==
    /\ [](fpc # "aborted")
    /\ [](fpc = "returned" => frames = 0)
    /\ (fpc = "fmt" /\ ferr \in ResponseErrors) ~> (fpc = "finished")

\* ===================================================================
\* SpecToggle: consecutive runs of `toggleproxy toggle` (main.rs 19-20,
\* 32-61) over the configuration file (config.rs 49-125)
\* ===================================================================
\* Config::default() (config.rs 22-31), its status and systemd fields
DefaultConfig == [status |-> FALSE, systemd |-> FALSE]

\* the file: a Config as JSON, no file, or bytes that do not parse
Files ==
    {[st |-> "ok", status |-> b, systemd |-> d] : b, d \in BOOLEAN}
    \cup {[st |-> "missing", status |-> FALSE, systemd |-> FALSE],
          [st |-> "corrupt", status |-> FALSE, systemd |-> FALSE]}

\* get_args (clap.rs 25-43) declares the arguments config, port and target:
\* `get_one::<bool>("status")` and `get_one::<bool>("systemd")` have no
\* value to return
StatusArg == "None"

\* how save_config ends (config.rs 104-125): Ok; File::create failed; or
\* the file was created, which empties it, and writing the JSON failed
SaveOutcomes == {"Ok", "ErrCreate", "ErrWrite"}

\* the file after save_config(c) ended with outcome o
Saved(f, c, o) ==
    CASE o = "Ok" -> [st |-> "ok", status |-> c.status, systemd |-> c.systemd]
      [] o = "ErrCreate" -> f
      [] o = "ErrWrite" ->
            [st |-> "corrupt", status |-> FALSE, systemd |-> FALSE]

\* a toggle that leaves the flag as it was loaded
ToggledStatus_Keep(arg, st) == IF arg = "None" THEN st ELSE arg = "true"

\* main.rs 33-36: `args.get_one::<bool>("status").unwrap_or(&!config.status)`
ToggledStatus(arg, st) == IF arg = "None" THEN ~st ELSE arg = "true"

InitTgl ==
    /\ IdleSrv
    /\ IdleHdl
    /\ IdleCod
    /\ IdleRel
    /\ IdleLis
    /\ IdleAut
    /\ IdleFmt
    /\ tpc = "start"
    /\ file \in Files
    /\ config = DefaultConfig
    /\ loaded = FALSE
    /\ save_result = "none"
    /\ restart = "none"
    /\ hist = <<>>

\* get_config (config.rs 49-102): the file is opened and parsed; when that
\* fails the default is taken and saved, whatever the save returns
get_config ==
    /\ tpc = "start"
    /\ IF file.st = "ok"
       THEN /\ config' = [status |-> file.status, systemd |-> file.systemd]
            /\ UNCHANGED file
       ELSE /\ config' = DefaultConfig
            /\ \E o \in SaveOutcomes : file' = Saved(file, DefaultConfig, o)
    /\ loaded' = config'.status
    /\ tpc' = "loaded"
    /\ UNCHANGED <<save_result, restart, hist>>
    /\ UNCHANGED <<srvVars, hdlVars, codVars, relVars, lisVars, autVars, fmtVars>>

\* main.rs 33-43: the status flag is set and announced
Toggle ==
    /\ tpc = "loaded"
    /\ config' = [config EXCEPT !.status = ToggledStatus(StatusArg, @)]
    /\ tpc' = "toggled"
    /\ UNCHANGED <<file, loaded, save_result, restart, hist>>
    /\ UNCHANGED <<srvVars, hdlVars, codVars, relVars, lisVars, autVars, fmtVars>>

\* main.rs 44: save_config(&config)
save_config ==
    /\ tpc = "toggled"
    /\ \E o \in SaveOutcomes :
          /\ file' = Saved(file, config, o)
          /\ save_result' = IF o = "Ok" THEN "Ok" ELSE "Err"
    /\ tpc' = "saved"
    /\ UNCHANGED <<config, loaded, restart, hist>>
    /\ UNCHANGED <<srvVars, hdlVars, codVars, relVars, lisVars, autVars, fmtVars>>

\* the record of a run that ends with restart outcome r
RunRecord(r) ==
    [loaded |-> loaded, saved |-> save_result, systemd |-> config.systemd,
     restart |-> r, after |-> file]

\* main.rs 45-55: after Ok(_) and with config.systemd, systemd_restart()
\* (systemd.rs 3-19) is called and its result printed
systemd_restart ==
    /\ tpc = "saved"
    /\ save_result = "Ok"
    /\ config.systemd
    /\ \E r \in {"Ok", "Err"} :
          /\ restart' = r
          /\ hist' = Append(hist, RunRecord(r))
    /\ tpc' = "done"
    /\ UNCHANGED <<file, config, loaded, save_result>>
    /\ UNCHANGED <<srvVars, hdlVars, codVars, relVars, lisVars, autVars, fmtVars>>

\* main.rs 46, 57-59: the systemd flag is off, or the save failed and that
\* is printed; main returns
NoRestart ==
    /\ tpc = "saved"
    /\ ~(save_result = "Ok" /\ config.systemd)
    /\ hist' = Append(hist, RunRecord("none"))
    /\ tpc' = "done"
    /\ UNCHANGED <<file, config, loaded, save_result, restart>>
    /\ UNCHANGED <<srvVars, hdlVars, codVars, relVars, lisVars, autVars, fmtVars>>

\* the subcommand is run again
NextRun ==
    /\ tpc = "done"
    /\ Len(hist) < MaxRuns
    /\ tpc' = "start"
    /\ config' = DefaultConfig
    /\ loaded' = FALSE
    /\ save_result' = "none"
    /\ restart' = "none"
    /\ UNCHANGED <<file, hist>>
    /\ UNCHANGED <<srvVars, hdlVars, codVars, relVars, lisVars, autVars, fmtVars>>

NextTgl ==
    \/ get_config
    \/ Toggle
    \/ save_config
    \/ systemd_restart
    \/ NoRestart
    \/ NextRun

SpecToggle == InitTgl /\ [][NextTgl]_vars

\* C27: every run of toggle tries to save; a run whose save succeeded
\* leaves the file with the inverse of the status it loaded, so two
\* consecutive runs whose saves succeeded leave the status the first one
\* loaded; a restart is attempted only in a run whose save succeeded and
\* whose systemd flag is set, after the save, and never after a failed save.
C27_Toggle ==
    /\ \A k \in 1..Len(hist) :
          /\ hist[k].saved \in {"Ok", "Err"}
          /\ hist[k].saved = "Ok" =>
                /\ hist[k].after.st = "ok"
                /\ hist[k].after.status = ~hist[k].loaded
          /\ hist[k].restart # "none" =>
                (hist[k].saved = "Ok" /\ hist[k].systemd)
          /\ hist[k].saved = "Err" => hist[k].restart = "none"
    /\ \A k \in 1..(Len(hist) - 1) :
          (hist[k].saved = "Ok" /\ hist[k + 1].saved = "Ok") =>
             hist[k + 1].after.status = hist[k].loaded
    /\ restart # "none" =>
          (tpc = "done" /\ save_result = "Ok" /\ config.systemd)
    /\ tpc \in {"start", "loaded", "toggled"} => restart = "none"

\* two runs saved, the second restarted the service, and the file has the
\* status the first run loaded, here on
C27_Witness ==
    /\ Len(hist) = 2
    /\ hist[1].saved = "Ok"
    /\ hist[2].saved = "Ok"
    /\ hist[2].restart = "Ok"
    /\ hist[1].loaded
    /\ file.st = "ok"
    /\ file.status

====
